---- MODULE Spec2Model ----
(***************************************************************************)
(* SSH2 finite-field Diffie-Hellman key agreement of libssh (src/dh.c):    *)
(* the group registry (ssh_dh_init / ssh_dh_finalize) and the client and   *)
(* server halves of the KEXDH_INIT / KEXDH_REPLY handshake.                *)
(*                                                                         *)
(* A session is a record; every function of dh.c is an operator from the   *)
(* session (and its inputs) to the session it leaves behind.  Each call a  *)
(* function makes is appended to the session's trace, so that the order    *)
(* of the calls inside one handler is part of the state.                   *)
(***************************************************************************)
EXTENDS Integers, Sequences, FiniteSets, TLC

(***************************************************************************)
(* Bounds of the model.                                                    *)
(***************************************************************************)
\* Stand-in for the group prime p: the arithmetic is done modulo P_MODEL.
P_MODEL == 23
\* Private exponents are drawn from 1..MaxExp.
MaxExp == 2
\* Packets an adversary may inject, over both directions.
MaxForged == 1

(***************************************************************************)
(* Values.                                                                 *)
(***************************************************************************)
\* A pointer is a sequence: <<>> is NULL, <<v>> points to v.
NULL == <<>>

SSH_OK == "SSH_OK"
SSH_ERROR == "SSH_ERROR"
SSH_PACKET_USED == "SSH_PACKET_USED"
SSH_PACKET_NOT_USED == "SSH_PACKET_NOT_USED"
\* No call made yet.
NotCalled == [op |-> "none"]

\* No lookup in the registry made yet.
NoRead == [op |-> "none", calls |-> 0]

NotReturned == "none"

SSH2_MSG_KEXDH_INIT == "SSH2_MSG_KEXDH_INIT"
SSH2_MSG_KEXDH_REPLY == "SSH2_MSG_KEXDH_REPLY"
SSH2_MSG_KEX_DH_GEX_REPLY == "SSH2_MSG_KEX_DH_GEX_REPLY"
SSH2_MSG_NEWKEYS == "SSH2_MSG_NEWKEYS"

DH_CLIENT_KEYPAIR == "DH_CLIENT_KEYPAIR"
DH_SERVER_KEYPAIR == "DH_SERVER_KEYPAIR"

DH_STATE_INIT == "DH_STATE_INIT"
DH_STATE_INIT_SENT == "DH_STATE_INIT_SENT"
DH_STATE_NEWKEYS_SENT == "DH_STATE_NEWKEYS_SENT"

SSH_SESSION_STATE_DH == "SSH_SESSION_STATE_DH"
SSH_SESSION_STATE_ERROR == "SSH_SESSION_STATE_ERROR"

\* The kex types of the switch in ssh_server_dh_process_init.
FixedGroupKex ==
    {"SSH_KEX_DH_GROUP1_SHA1", "SSH_KEX_DH_GROUP14_SHA1", "SSH_KEX_DH_GROUP14_SHA256",
     "SSH_KEX_DH_GROUP16_SHA512", "SSH_KEX_DH_GROUP18_SHA512"}
GexKex == {"SSH_KEX_DH_GEX_SHA1", "SSH_KEX_DH_GEX_SHA256"}
\* Kex types the switch does not name.
OtherKex == {"SSH_KEX_ECDH_SHA2_NISTP256"}
KexTypes == FixedGroupKex \cup GexKex \cup OtherKex

Sides == {"client", "server"}
Peer(side) == IF side = "client" THEN "server" ELSE "client"

VARIABLES
    sess,       \* sess[side]: the ssh_session of each side
    net,        \* net[side]: packets of the peer already delivered to side, and forged ones
    kex_type,   \* session->next_crypto->kex_type, as negotiated
    with_gex,   \* whether the build defines WITH_GEX
    registry,   \* the globals ssh_dh_generator, ssh_dh_group1 .. ssh_dh_group18 and the flag
    heap,       \* the bignum allocator: the next fresh address, the last call and its result
    rd,         \* the last call of ssh_dh_is_known_group or ssh_fallback_group and its result
    kdf,        \* the last call of bcrypt_pbkdf: its inputs, its buffers at return, its result
    fp,         \* the last call of ssh_get_fingerprint_hash: its inputs and its result
    thr         \* thr[t]: where thread t stands in ssh_dh_init, and what it returned

vars == <<sess, net, kex_type, with_gex, registry, heap, rd, kdf, fp, thr>>

(***************************************************************************)
(* The session and its trace.                                              *)
(***************************************************************************)
NewSession ==
    [session_state |-> SSH_SESSION_STATE_DH,
     dh_handshake_state |-> DH_STATE_INIT,
     dh_ctx |-> NULL,
     shared_secret |-> NULL,
     callbacks |-> FALSE,
     out_buffer |-> <<>>,
     sent |-> <<>>,
     unpacked |-> NULL,
     trace |-> <<>>,
     ret |-> NotReturned]

Log(s, call, ok) == [s EXCEPT !.trace = Append(@, [call |-> call, ok |-> ok])]

Called(s, call) == \E i \in DOMAIN s.trace : s.trace[i].call = call
CalledOk(s, call) == \E i \in DOMAIN s.trace : s.trace[i].call = call /\ s.trace[i].ok
Failed(s, call) == \E i \in DOMAIN s.trace : s.trace[i].call = call /\ ~s.trace[i].ok
AnyFailed(s) == \E i \in DOMAIN s.trace : ~s.trace[i].ok
\* Every occurrence of a is before every occurrence of b.
Before(s, a, b) ==
    \A i, j \in DOMAIN s.trace : (s.trace[i].call = a /\ s.trace[j].call = b) => i < j
CountCalls(s, call) == Cardinality({i \in DOMAIN s.trace : s.trace[i].call = call})
CountSent(s, type) == Cardinality({i \in DOMAIN s.sent : s.sent[i].type = type})

(***************************************************************************)
(* The DH context (dh_ctx) and its operations, called by dh.c.             *)
(***************************************************************************)
RECURSIVE ModExp(_, _, _)
ModExp(b, x, p) == IF x = 0 THEN 1 % p ELSE (b * ModExp(b, x - 1, p)) % p

\* G is defined as 2 by the ssh2 standards.
g_int == 2

NoKeys == [priv |-> NULL, pub |-> NULL]
NewCtx ==
    [modulus |-> P_MODEL,
     generator |-> g_int,
     keypairs |-> [k \in {DH_CLIENT_KEYPAIR, DH_SERVER_KEYPAIR} |-> NoKeys]]

HasCtx(s) == s.dh_ctx # NULL
Ctx(s) == s.dh_ctx[1]

\* The range check on a peer public value or a shared secret: 1 < e < p-1.
InRange(e, p) == 1 < e /\ e < p - 1

\* ssh_dh_init_common(crypto): creates crypto->dh_ctx.
ssh_dh_init_common(s, failed) ==
    IF failed
    THEN [s |-> Log(s, "ssh_dh_init_common", FALSE), rc |-> SSH_ERROR]
    ELSE [s |-> Log([s EXCEPT !.dh_ctx = <<NewCtx>>], "ssh_dh_init_common", TRUE),
          rc |-> SSH_OK]

\* ssh_dh_cleanup(crypto): releases crypto->dh_ctx; safe on a missing context.
ssh_dh_cleanup(s) == Log([s EXCEPT !.dh_ctx = NULL], "ssh_dh_cleanup", TRUE)

\* ssh_dh_keypair_gen_keys(ctx, peer): draws x, computes g^x mod p.
ssh_dh_keypair_gen_keys(s, peer, x, failed) ==
    IF failed \/ ~HasCtx(s)
    THEN [s |-> Log(s, "ssh_dh_keypair_gen_keys", FALSE), rc |-> SSH_ERROR]
    ELSE [s |-> Log([s EXCEPT !.dh_ctx[1].keypairs[peer] =
                        [priv |-> <<x>>,
                         pub |-> <<ModExp(Ctx(s).generator, x, Ctx(s).modulus)>>]],
                    "ssh_dh_keypair_gen_keys", TRUE),
          rc |-> SSH_OK]

\* ssh_dh_keypair_get_keys(ctx, peer, NULL, &pub): reads the stored public value.
ssh_dh_keypair_get_keys(s, peer, failed) ==
    IF failed \/ ~HasCtx(s)
    THEN [s |-> Log(s, "ssh_dh_keypair_get_keys", FALSE), rc |-> SSH_ERROR, pub |-> NULL]
    ELSE IF Ctx(s).keypairs[peer].pub = NULL
    THEN [s |-> Log(s, "ssh_dh_keypair_get_keys", FALSE), rc |-> SSH_ERROR, pub |-> NULL]
    ELSE [s |-> Log(s, "ssh_dh_keypair_get_keys", TRUE), rc |-> SSH_OK,
          pub |-> Ctx(s).keypairs[peer].pub]

\* ssh_dh_keypair_set_keys(ctx, peer, NULL, pub): set_peer, stores the peer's
\* public value after the range check 1 < e < p-1.
ssh_dh_keypair_set_keys(s, peer, pub, failed) ==
    IF failed \/ ~HasCtx(s) \/ pub = NULL
    THEN [s |-> Log(s, "ssh_dh_keypair_set_keys", FALSE), rc |-> SSH_ERROR]
    ELSE IF ~InRange(pub[1], Ctx(s).modulus)
    THEN [s |-> Log(s, "ssh_dh_keypair_set_keys", FALSE), rc |-> SSH_ERROR]
    ELSE [s |-> Log([s EXCEPT !.dh_ctx[1].keypairs[peer].pub = pub],
                    "ssh_dh_keypair_set_keys", TRUE),
          rc |-> SSH_OK]

\* ssh_dh_compute_shared_secret(ctx, local, remote, &dest):
\* K = e_remote ^ x_local mod p, rejected unless 1 < K < p-1.
SharedSecret(ctx, local, remote) ==
    ModExp(ctx.keypairs[remote].pub[1], ctx.keypairs[local].priv[1], ctx.modulus)

ssh_dh_compute_shared_secret(s, local, remote, failed) ==
    IF failed \/ ~HasCtx(s)
    THEN [s |-> Log(s, "ssh_dh_compute_shared_secret", FALSE), rc |-> SSH_ERROR]
    ELSE IF Ctx(s).keypairs[local].priv = NULL \/ Ctx(s).keypairs[remote].pub = NULL
    THEN [s |-> Log(s, "ssh_dh_compute_shared_secret", FALSE), rc |-> SSH_ERROR]
    ELSE IF ~InRange(SharedSecret(Ctx(s), local, remote), Ctx(s).modulus)
    THEN [s |-> Log(s, "ssh_dh_compute_shared_secret", FALSE), rc |-> SSH_ERROR]
    ELSE [s |-> Log([s EXCEPT !.shared_secret = <<SharedSecret(Ctx(s), local, remote)>>],
                    "ssh_dh_compute_shared_secret", TRUE),
          rc |-> SSH_OK]

(***************************************************************************)
(* Buffer, transport and PKI collaborators, called by dh.c.                *)
(***************************************************************************)
\* A packet: its message number and its mpint (NULL when it carries none).
Packet(type, e) == [type |-> type, e |-> e]

\* ssh_buffer_pack / ssh_buffer_add_u8 on session->out_buffer.
ssh_buffer_pack(s, pkt, failed) ==
    IF failed
    THEN [s |-> Log(s, "ssh_buffer_pack:" \o pkt.type, FALSE), rc |-> SSH_ERROR]
    ELSE [s |-> Log([s EXCEPT !.out_buffer = Append(@, pkt)],
                    "ssh_buffer_pack:" \o pkt.type, TRUE),
          rc |-> SSH_OK]

ssh_buffer_add_u8(s, type, failed) ==
    IF failed
    THEN [s |-> Log(s, "ssh_buffer_add_u8", FALSE), rc |-> SSH_ERROR]
    ELSE [s |-> Log([s EXCEPT !.out_buffer = Append(@, Packet(type, NULL))],
                    "ssh_buffer_add_u8", TRUE),
          rc |-> SSH_OK]

ssh_buffer_reinit(s) == [s EXCEPT !.out_buffer = <<>>]

\* ssh_buffer_unpack(packet, ...): fails on a packet without its mpint.
ssh_buffer_unpack(s, pkt, failed) ==
    IF failed \/ pkt.e = NULL
    THEN [s |-> Log(s, "ssh_buffer_unpack", FALSE), rc |-> SSH_ERROR, e |-> NULL]
    ELSE [s |-> Log([s EXCEPT !.unpacked = pkt.e], "ssh_buffer_unpack", TRUE),
          rc |-> SSH_OK, e |-> pkt.e]

\* ssh_packet_send(session): hands session->out_buffer to the transport.
SendCall(s) ==
    IF s.out_buffer = <<>> THEN "ssh_packet_send"
    ELSE "ssh_packet_send:" \o s.out_buffer[Len(s.out_buffer)].type

ssh_packet_send(s, failed) ==
    IF failed
    THEN [s |-> Log(s, SendCall(s), FALSE), rc |-> SSH_ERROR]
    ELSE [s |-> Log([s EXCEPT !.sent = @ \o s.out_buffer, !.out_buffer = <<>>],
                    SendCall(s), TRUE),
          rc |-> SSH_OK]

ssh_packet_set_callbacks(s) ==
    Log([s EXCEPT !.callbacks = TRUE], "ssh_packet_set_callbacks", TRUE)

ssh_packet_remove_callbacks(s) ==
    Log([s EXCEPT !.callbacks = FALSE], "ssh_packet_remove_callbacks", TRUE)

\* A collaborator of which only success or failure matters here.
External(s, call, failed) ==
    [s |-> Log(s, call, ~failed), rc |-> IF failed THEN SSH_ERROR ELSE SSH_OK]

\* session->field = value, recorded in the trace.
SetSessionState(s, v) == Log([s EXCEPT !.session_state = v], "session_state=" \o v, TRUE)
SetHandshakeState(s, v) ==
    Log([s EXCEPT !.dh_handshake_state = v], "dh_handshake_state=" \o v, TRUE)
Return(s, v) == [s EXCEPT !.ret = v]

(***************************************************************************)
(* The client: ssh_client_dh_init and ssh_packet_client_dh_reply.          *)
(***************************************************************************)
\* The calls of ssh_client_dh_init that can fail.
ClientInitFailures ==
    {"ssh_dh_init_common", "ssh_dh_keypair_gen_keys", "ssh_dh_keypair_get_keys",
     "ssh_buffer_pack", "ssh_packet_send"}

\* error: ssh_dh_cleanup(crypto); return SSH_ERROR;
client_dh_init_error(s) == Return(ssh_dh_cleanup(s), SSH_ERROR)

\* Variant: the packet is sent before the callbacks are registered and the state set.
client_dh_init_send_SendFirst(s, fail) ==
    LET r == ssh_packet_send(s, fail = "ssh_packet_send")
        s1 == ssh_packet_set_callbacks(r.s)
        s2 == SetHandshakeState(s1, DH_STATE_INIT_SENT)
    IN  Return(s2, r.rc)

\* register the packet callbacks, set the state, send and return rc
client_dh_init_send(s, fail) ==
    LET s1 == ssh_packet_set_callbacks(s)
        s2 == SetHandshakeState(s1, DH_STATE_INIT_SENT)
        r == ssh_packet_send(s2, fail = "ssh_packet_send")
    IN  Return(r.s, r.rc)

ssh_client_dh_init(s, x, fail) ==
    LET r1 == ssh_dh_init_common(s, fail = "ssh_dh_init_common") IN
    IF r1.rc = SSH_ERROR THEN client_dh_init_error(r1.s) ELSE
    LET r2 == ssh_dh_keypair_gen_keys(r1.s, DH_CLIENT_KEYPAIR, x,
                                      fail = "ssh_dh_keypair_gen_keys") IN
    IF r2.rc = SSH_ERROR THEN client_dh_init_error(r2.s) ELSE
    LET r3 == ssh_dh_keypair_get_keys(r2.s, DH_CLIENT_KEYPAIR,
                                      fail = "ssh_dh_keypair_get_keys") IN
    IF r3.rc # SSH_OK THEN client_dh_init_error(r3.s) ELSE
    LET r4 == ssh_buffer_pack(r3.s, Packet(SSH2_MSG_KEXDH_INIT, r3.pub),
                              fail = "ssh_buffer_pack") IN
    IF r4.rc # SSH_OK THEN client_dh_init_error(r4.s) ELSE
    client_dh_init_send(r4.s, fail)

\* The calls of ssh_packet_client_dh_reply that can fail.
ClientReplyFailures ==
    {"ssh_buffer_unpack", "ssh_dh_keypair_set_keys", "ssh_dh_import_next_pubkey_blob",
     "ssh_dh_compute_shared_secret", "ssh_buffer_add_u8", "ssh_packet_send"}

\* Variant: the error path keeps the DH context.
client_dh_reply_error_NoCleanup(s) ==
    Return(SetSessionState(s, SSH_SESSION_STATE_ERROR), SSH_PACKET_USED)

\* error: ssh_dh_cleanup; session_state = ERROR; return SSH_PACKET_USED;
client_dh_reply_error(s) ==
    Return(SetSessionState(ssh_dh_cleanup(s), SSH_SESSION_STATE_ERROR), SSH_PACKET_USED)

\* Variant: the success path leaves dh_handshake_state alone.
client_dh_reply_done_NoState(s) == Return(s, SSH_PACKET_USED)

\* session->dh_handshake_state = DH_STATE_NEWKEYS_SENT; return SSH_PACKET_USED;
client_dh_reply_done(s) ==
    Return(SetHandshakeState(s, DH_STATE_NEWKEYS_SENT), SSH_PACKET_USED)

\* Variant: the callbacks stay registered.
client_dh_reply_enter_KeepCallbacks(s) == Log(s, "ssh_packet_client_dh_reply", TRUE)

\* ssh_packet_remove_callbacks(session, &ssh_dh_client_callbacks), on entry
client_dh_reply_enter(s) ==
    ssh_packet_remove_callbacks(Log(s, "ssh_packet_client_dh_reply", TRUE))

\* Variant: the handshake state is set before the packet is sent.
client_dh_reply_newkeys_StateFirst(s, fail) ==
    LET r5 == ssh_buffer_add_u8(s, SSH2_MSG_NEWKEYS, fail = "ssh_buffer_add_u8") IN
    IF r5.rc # SSH_OK THEN client_dh_reply_error(r5.s) ELSE
    LET r6 == ssh_packet_send(SetHandshakeState(r5.s, DH_STATE_NEWKEYS_SENT),
                              fail = "ssh_packet_send") IN
    IF r6.rc = SSH_ERROR THEN client_dh_reply_error(r6.s) ELSE
    Return(r6.s, SSH_PACKET_USED)

\* Send the MSG_NEWKEYS, then dh_handshake_state = DH_STATE_NEWKEYS_SENT.
client_dh_reply_newkeys(s, fail) ==
    LET r5 == ssh_buffer_add_u8(s, SSH2_MSG_NEWKEYS, fail = "ssh_buffer_add_u8") IN
    IF r5.rc # SSH_OK THEN client_dh_reply_error(r5.s) ELSE
    LET r6 == ssh_packet_send(r5.s, fail = "ssh_packet_send") IN
    IF r6.rc = SSH_ERROR THEN client_dh_reply_error(r6.s) ELSE
    client_dh_reply_done(r6.s)

\* Variant: the result of ssh_dh_keypair_set_keys is not looked at.
ssh_packet_client_dh_reply_NoPeerCheck(s, packet, fail) ==
    LET s0 == client_dh_reply_enter(s)
        r1 == ssh_buffer_unpack(s0, packet, fail = "ssh_buffer_unpack") IN
    IF r1.rc = SSH_ERROR THEN client_dh_reply_error(r1.s) ELSE
    LET r2 == ssh_dh_keypair_set_keys(r1.s, DH_SERVER_KEYPAIR, r1.e,
                                      fail = "ssh_dh_keypair_set_keys")
        r3 == External(r2.s, "ssh_dh_import_next_pubkey_blob",
                       fail = "ssh_dh_import_next_pubkey_blob") IN
    IF r3.rc # SSH_OK THEN client_dh_reply_error(r3.s) ELSE
    LET r4 == ssh_dh_compute_shared_secret(r3.s, DH_CLIENT_KEYPAIR, DH_SERVER_KEYPAIR,
                                           fail = "ssh_dh_compute_shared_secret") IN
    IF r4.rc = SSH_ERROR THEN client_dh_reply_error(r4.s) ELSE
    client_dh_reply_newkeys(r4.s, fail)

ssh_packet_client_dh_reply(s, packet, fail) ==
    LET s0 == client_dh_reply_enter(s)
        r1 == ssh_buffer_unpack(s0, packet, fail = "ssh_buffer_unpack") IN
    IF r1.rc = SSH_ERROR THEN client_dh_reply_error(r1.s) ELSE
    LET r2 == ssh_dh_keypair_set_keys(r1.s, DH_SERVER_KEYPAIR, r1.e,
                                      fail = "ssh_dh_keypair_set_keys") IN
    IF r2.rc # SSH_OK THEN client_dh_reply_error(r2.s) ELSE
    LET r3 == External(r2.s, "ssh_dh_import_next_pubkey_blob",
                       fail = "ssh_dh_import_next_pubkey_blob") IN
    IF r3.rc # SSH_OK THEN client_dh_reply_error(r3.s) ELSE
    LET r4 == ssh_dh_compute_shared_secret(r3.s, DH_CLIENT_KEYPAIR, DH_SERVER_KEYPAIR,
                                           fail = "ssh_dh_compute_shared_secret") IN
    IF r4.rc = SSH_ERROR THEN client_dh_reply_error(r4.s) ELSE
    client_dh_reply_newkeys(r4.s, fail)

(***************************************************************************)
(* The server: ssh_server_dh_init, ssh_server_dh_process_init and          *)
(* ssh_packet_server_dh_init.                                              *)
(***************************************************************************)
\* ssh_packet_set_callbacks, then ssh_dh_init_common with its result dropped
ssh_server_dh_init(s, fail) ==
    LET s1 == ssh_packet_set_callbacks(s)
        r == ssh_dh_init_common(s1, fail = "ssh_dh_init_common")
    IN  Return(r.s, "void")

\* The calls of ssh_server_dh_process_init that can fail.
ServerInitFailures ==
    {"ssh_buffer_unpack", "ssh_dh_keypair_set_keys", "ssh_dh_keypair_gen_keys",
     "ssh_get_key_params", "ssh_dh_compute_shared_secret", "ssh_make_sessionid",
     "ssh_srv_pki_do_sign_sessionid", "ssh_dh_keypair_get_keys",
     "ssh_dh_get_next_server_publickey_blob", "ssh_buffer_pack", "ssh_packet_send#1",
     "ssh_buffer_add_u8", "ssh_packet_send#2"}

\* Variant: the default case answers with KEXDH_REPLY instead of failing.
reply_packet_type_NoDefault(kex, gex) ==
    IF gex /\ kex \in GexKex THEN <<SSH2_MSG_KEX_DH_GEX_REPLY>>
    ELSE <<SSH2_MSG_KEXDH_REPLY>>

\* switch (crypto->kex_type): the reply's message number, NULL for the default case
reply_packet_type(kex, gex) ==
    IF kex \in FixedGroupKex THEN <<SSH2_MSG_KEXDH_REPLY>>
    ELSE IF gex /\ kex \in GexKex THEN <<SSH2_MSG_KEX_DH_GEX_REPLY>>
    ELSE NULL

\* Variant: the error path does not set the session state.
server_dh_error_NoState(s) == Return(ssh_dh_cleanup(s), SSH_ERROR)

\* error: session_state = ERROR; ssh_dh_cleanup; return SSH_ERROR;
server_dh_error(s) ==
    Return(ssh_dh_cleanup(SetSessionState(s, SSH_SESSION_STATE_ERROR)), SSH_ERROR)

\* From the NEWKEYS byte to return SSH_OK.
server_dh_newkeys(s, fail) ==
    LET r1 == ssh_buffer_add_u8(s, SSH2_MSG_NEWKEYS, fail = "ssh_buffer_add_u8") IN
    IF r1.rc # SSH_OK THEN server_dh_error(ssh_buffer_reinit(r1.s)) ELSE
    LET s2 == SetHandshakeState(r1.s, DH_STATE_NEWKEYS_SENT)
        r3 == ssh_packet_send(s2, fail = "ssh_packet_send#2") IN
    IF r3.rc = SSH_ERROR THEN server_dh_error(r3.s) ELSE
    Return(r3.s, SSH_OK)

\* From the choice of the reply's message number to the sending of the reply.
server_dh_reply(s, kex, gex, fail) ==
    LET packet_type == reply_packet_type(kex, gex) IN
    IF packet_type = NULL THEN server_dh_error(Log(s, "Invalid kex type", FALSE)) ELSE
    LET r1 == ssh_dh_keypair_get_keys(s, DH_SERVER_KEYPAIR,
                                      fail = "ssh_dh_keypair_get_keys") IN
    IF r1.rc # SSH_OK THEN server_dh_error(r1.s) ELSE
    LET r2 == External(r1.s, "ssh_dh_get_next_server_publickey_blob",
                       fail = "ssh_dh_get_next_server_publickey_blob") IN
    IF r2.rc # SSH_OK THEN server_dh_error(r2.s) ELSE
    LET r3 == ssh_buffer_pack(r2.s, Packet(packet_type[1], r1.pub),
                              fail = "ssh_buffer_pack") IN
    IF r3.rc # SSH_OK THEN server_dh_error(ssh_buffer_reinit(r3.s)) ELSE
    LET r4 == ssh_packet_send(r3.s, fail = "ssh_packet_send#1") IN
    IF r4.rc = SSH_ERROR THEN server_dh_error(r4.s) ELSE
    server_dh_newkeys(r4.s, fail)

\* Variant: the session id is signed before it is made.
ssh_server_dh_process_init_SignFirst(s, packet, y, kex, gex, fail) ==
    LET r1 == ssh_buffer_unpack(s, packet, fail = "ssh_buffer_unpack") IN
    IF r1.rc = SSH_ERROR THEN server_dh_error(r1.s) ELSE
    LET r2 == ssh_dh_keypair_set_keys(r1.s, DH_CLIENT_KEYPAIR, r1.e,
                                      fail = "ssh_dh_keypair_set_keys") IN
    IF r2.rc # SSH_OK THEN server_dh_error(r2.s) ELSE
    LET r3 == ssh_dh_keypair_gen_keys(r2.s, DH_SERVER_KEYPAIR, y,
                                      fail = "ssh_dh_keypair_gen_keys") IN
    IF r3.rc = SSH_ERROR THEN server_dh_error(r3.s) ELSE
    LET r4 == External(r3.s, "ssh_get_key_params", fail = "ssh_get_key_params") IN
    IF r4.rc # SSH_OK THEN server_dh_error(r4.s) ELSE
    LET r5 == ssh_dh_compute_shared_secret(r4.s, DH_SERVER_KEYPAIR, DH_CLIENT_KEYPAIR,
                                           fail = "ssh_dh_compute_shared_secret") IN
    IF r5.rc = SSH_ERROR THEN server_dh_error(r5.s) ELSE
    LET r6 == External(r5.s, "ssh_srv_pki_do_sign_sessionid",
                       fail = "ssh_srv_pki_do_sign_sessionid") IN
    IF r6.rc # SSH_OK THEN server_dh_error(r6.s) ELSE
    LET r7 == External(r6.s, "ssh_make_sessionid", fail = "ssh_make_sessionid") IN
    IF r7.rc # SSH_OK THEN server_dh_error(r7.s) ELSE
    server_dh_reply(r7.s, kex, gex, fail)

ssh_server_dh_process_init(s, packet, y, kex, gex, fail) ==
    LET r1 == ssh_buffer_unpack(s, packet, fail = "ssh_buffer_unpack") IN
    IF r1.rc = SSH_ERROR THEN server_dh_error(r1.s) ELSE
    LET r2 == ssh_dh_keypair_set_keys(r1.s, DH_CLIENT_KEYPAIR, r1.e,
                                      fail = "ssh_dh_keypair_set_keys") IN
    IF r2.rc # SSH_OK THEN server_dh_error(r2.s) ELSE
    LET r3 == ssh_dh_keypair_gen_keys(r2.s, DH_SERVER_KEYPAIR, y,
                                      fail = "ssh_dh_keypair_gen_keys") IN
    IF r3.rc = SSH_ERROR THEN server_dh_error(r3.s) ELSE
    LET r4 == External(r3.s, "ssh_get_key_params", fail = "ssh_get_key_params") IN
    IF r4.rc # SSH_OK THEN server_dh_error(r4.s) ELSE
    LET r5 == ssh_dh_compute_shared_secret(r4.s, DH_SERVER_KEYPAIR, DH_CLIENT_KEYPAIR,
                                           fail = "ssh_dh_compute_shared_secret") IN
    IF r5.rc = SSH_ERROR THEN server_dh_error(r5.s) ELSE
    LET r6 == External(r5.s, "ssh_make_sessionid", fail = "ssh_make_sessionid") IN
    IF r6.rc # SSH_OK THEN server_dh_error(r6.s) ELSE
    LET r7 == External(r6.s, "ssh_srv_pki_do_sign_sessionid",
                       fail = "ssh_srv_pki_do_sign_sessionid") IN
    IF r7.rc # SSH_OK THEN server_dh_error(r7.s) ELSE
    server_dh_reply(r7.s, kex, gex, fail)

\* Variant: a failed ssh_server_dh_process_init is reported as SSH_PACKET_NOT_USED.
ssh_packet_server_dh_init_RcLeaks(s, packet, y, kex, gex, fail) ==
    LET s0 == ssh_packet_remove_callbacks(Log(s, "ssh_packet_server_dh_init", TRUE))
        s1 == ssh_server_dh_process_init(s0, packet, y, kex, gex, fail)
    IN  Return(Log(s1, "ssh_server_dh_process_init", s1.ret = SSH_OK),
               IF s1.ret = SSH_OK THEN SSH_PACKET_USED ELSE SSH_PACKET_NOT_USED)

\* remove the callbacks, process the packet, return SSH_PACKET_USED
ssh_packet_server_dh_init(s, packet, y, kex, gex, fail) ==
    LET s0 == ssh_packet_remove_callbacks(Log(s, "ssh_packet_server_dh_init", TRUE))
        s1 == ssh_server_dh_process_init(s0, packet, y, kex, gex, fail)
    IN  Return(Log(s1, "ssh_server_dh_process_init", s1.ret = SSH_OK), SSH_PACKET_USED)

(***************************************************************************)
(* The group registry: ssh_dh_init and ssh_dh_finalize.                    *)
(***************************************************************************)
\* Calls of ssh_dh_init and ssh_dh_finalize the model follows.
MaxCalls == 4

P_GROUP1_LEN == 128
P_GROUP14_LEN == 256
P_GROUP16_LEN == 512
P_GROUP18_LEN == 1024

\* The value of a bignum: its number of bits and the bytes or word it was set from.
\* Every group prime starts with the byte 0xFF, so it has 8 * len bits.
BinValue(bytes, len) == [bits |-> 8 * len, from |-> bytes]
RECURSIVE NumBits(_)
NumBits(w) == IF w = 0 THEN 0 ELSE 1 + NumBits(w \div 2)
WordValue(w) == [bits |-> NumBits(w), from |-> "word:" \o ToString(w)]

GroupFields ==
    {"ssh_dh_generator", "ssh_dh_group1", "ssh_dh_group14", "ssh_dh_group16",
     "ssh_dh_group18"}

\* The zero-initialised globals.
NoRegistry ==
    [dh_crypto_initialized |-> FALSE,
     ssh_dh_generator |-> NULL,
     ssh_dh_group1 |-> NULL,
     ssh_dh_group14 |-> NULL,
     ssh_dh_group16 |-> NULL,
     ssh_dh_group18 |-> NULL]

\* No bignum allocated yet; trace lists the calls made to the registry so far.
NoHeap == [next |-> 1, live |-> {}, trace |-> <<>>]

\* A bignum at a fresh address, or NULL when the allocation fails.
bignum_new(st, field, failed) ==
    IF failed
    THEN [st EXCEPT !.registry[field] = NULL]
    ELSE [st EXCEPT !.registry[field] = <<[addr |-> st.heap.next, val |-> NULL]>>,
                    !.heap.next = @ + 1,
                    !.heap.live = @ \cup {st.heap.next}]

bignum_set_word(st, field, w) == [st EXCEPT !.registry[field][1].val = <<WordValue(w)>>]

\* bignum_bin2bn(value, len, &dest): a new bignum read from the bytes.
bignum_bin2bn(st, bytes, len, field, failed) ==
    LET s1 == bignum_new(st, field, failed) IN
    IF s1.registry[field] = NULL THEN s1
    ELSE [s1 EXCEPT !.registry[field][1].val = <<BinValue(bytes, len)>>]

\* bignum_safe_free(x): frees x and sets it to NULL; nothing on NULL.
bignum_safe_free(st, field) ==
    IF st.registry[field] = NULL THEN st
    ELSE [st EXCEPT !.heap.live = @ \ {st.registry[field][1].addr},
                    !.registry[field] = NULL]

RegReturn(st, op, rc) == [st EXCEPT !.heap.trace = Append(@, [op |-> op, rc |-> rc])]

\* Variant: the flag is left set after the bignums are freed.
ssh_dh_finalize_body_KeepsFlag(st) ==
    IF ~st.registry.dh_crypto_initialized THEN st ELSE
    LET s1 == bignum_safe_free(st, "ssh_dh_generator")
        s2 == bignum_safe_free(s1, "ssh_dh_group1")
        s3 == bignum_safe_free(s2, "ssh_dh_group14")
        s4 == bignum_safe_free(s3, "ssh_dh_group16")
        s5 == bignum_safe_free(s4, "ssh_dh_group18")
    IN  s5

ssh_dh_finalize_body(st) ==
    IF ~st.registry.dh_crypto_initialized THEN st ELSE
    LET s1 == bignum_safe_free(st, "ssh_dh_generator")
        s2 == bignum_safe_free(s1, "ssh_dh_group1")
        s3 == bignum_safe_free(s2, "ssh_dh_group14")
        s4 == bignum_safe_free(s3, "ssh_dh_group16")
        s5 == bignum_safe_free(s4, "ssh_dh_group18")
    IN  [s5 EXCEPT !.registry.dh_crypto_initialized = FALSE]

ssh_dh_finalize(st) == RegReturn(ssh_dh_finalize_body(st), "ssh_dh_finalize", "void")

\* The calls of ssh_dh_init that can fail.
DhInitFailures ==
    {"bignum_new", "bignum_set_word", "ssh_dh_group1", "ssh_dh_group14", "ssh_dh_group16",
     "ssh_dh_group18"}

\* Variant: the error path returns without calling ssh_dh_finalize.
dh_init_error_NoFinalize(st) == RegReturn(st, "ssh_dh_init", SSH_ERROR)

\* error: ssh_dh_finalize(); return SSH_ERROR;
dh_init_error(st) == RegReturn(ssh_dh_finalize_body(st), "ssh_dh_init", SSH_ERROR)

\* Variant: the flag is not looked at, every call initialises.
dh_init_is_initialized_Never(st) == FALSE

\* if (dh_crypto_initialized) return SSH_OK;
dh_init_is_initialized(st) == st.registry.dh_crypto_initialized

ssh_dh_init(st, fail) ==
    IF dh_init_is_initialized(st) THEN RegReturn(st, "ssh_dh_init", SSH_OK) ELSE
    LET s0 == [st EXCEPT !.registry.dh_crypto_initialized = TRUE]
        s1 == bignum_new(s0, "ssh_dh_generator", fail = "bignum_new") IN
    IF s1.registry.ssh_dh_generator = NULL THEN dh_init_error(s1) ELSE
    IF fail = "bignum_set_word" THEN dh_init_error(s1) ELSE
    LET s2 == bignum_set_word(s1, "ssh_dh_generator", g_int)
        s3 == bignum_bin2bn(s2, "p_group1_value", P_GROUP1_LEN, "ssh_dh_group1",
                            fail = "ssh_dh_group1") IN
    IF s3.registry.ssh_dh_group1 = NULL THEN dh_init_error(s3) ELSE
    LET s4 == bignum_bin2bn(s3, "p_group14_value", P_GROUP14_LEN, "ssh_dh_group14",
                            fail = "ssh_dh_group14") IN
    IF s4.registry.ssh_dh_group14 = NULL THEN dh_init_error(s4) ELSE
    LET s5 == bignum_bin2bn(s4, "p_group16_value", P_GROUP16_LEN, "ssh_dh_group16",
                            fail = "ssh_dh_group16") IN
    IF s5.registry.ssh_dh_group16 = NULL THEN dh_init_error(s5) ELSE
    LET s6 == bignum_bin2bn(s5, "p_group18_value", P_GROUP18_LEN, "ssh_dh_group18",
                            fail = "ssh_dh_group18") IN
    IF s6.registry.ssh_dh_group18 = NULL THEN dh_init_error(s6) ELSE
    RegReturn(s6, "ssh_dh_init", SSH_OK)

\* The threads that call ssh_dh_init at the same time.
NumThreads == 2
Threads == 1..NumThreads

\* No thread has entered ssh_dh_init yet: each stands before the test of the flag.
NoThreads == [t \in Threads |-> [pc |-> "check_flag", rc |-> "none", populated |-> FALSE]]

(***************************************************************************)
(* The state machine.                                                      *)
(***************************************************************************)
Init ==
    /\ sess = [side \in Sides |-> NewSession]
    /\ net = [side \in Sides |-> [pos |-> 0, forged |-> 0]]
    /\ kex_type \in KexTypes
    /\ with_gex \in BOOLEAN
    /\ registry = NoRegistry
    /\ heap = NoHeap
    /\ rd = NoRead
    /\ kdf = NotCalled
    /\ fp = NotCalled
    /\ thr = NoThreads

\* The kex driver starts the client half once the kex algorithm is negotiated.
ClientStart ==
    /\ sess["client"].trace = <<>>
    /\ \E x \in 1..MaxExp, fail \in ClientInitFailures \cup {"none"} :
           sess' = [sess EXCEPT !["client"] = ssh_client_dh_init(@, x, fail)]
    /\ UNCHANGED <<net, kex_type, with_gex, registry, heap, rd, kdf, fp, thr>>

\* The kex driver starts the server half once the kex algorithm is negotiated.
ServerStart ==
    /\ sess["server"].trace = <<>>
    /\ \E fail \in {"ssh_dh_init_common", "none"} :
           sess' = [sess EXCEPT !["server"] = ssh_server_dh_init(@, fail)]
    /\ UNCHANGED <<net, kex_type, with_gex, registry, heap, rd, kdf, fp, thr>>

\* The message number the callbacks of a side are bound to (.start, .n_callbacks = 1).
CallbackStart(side) == IF side = "client" THEN SSH2_MSG_KEXDH_REPLY ELSE SSH2_MSG_KEXDH_INIT

\* The packet dispatch: the callback runs when it is registered for the packet's
\* message number, otherwise the DH code does not see the packet.
Dispatch(side, pkt) ==
    IF sess[side].callbacks /\ pkt.type = CallbackStart(side)
    THEN IF side = "client"
         THEN \E fail \in ClientReplyFailures \cup {"none"} :
                  sess' = [sess EXCEPT ![side] = ssh_packet_client_dh_reply(@, pkt, fail)]
         ELSE \E y \in 1..MaxExp, fail \in ServerInitFailures \cup {"none"} :
                  sess' = [sess EXCEPT ![side] =
                              ssh_packet_server_dh_init(@, pkt, y, kex_type, with_gex, fail)]
    ELSE UNCHANGED sess

\* The transport delivers the peer's next packet.
Deliver(side) ==
    /\ net[side].pos < Len(sess[Peer(side)].sent)
    /\ net' = [net EXCEPT ![side].pos = @ + 1]
    /\ Dispatch(side, sess[Peer(side)].sent[net[side].pos + 1])
    /\ UNCHANGED <<kex_type, with_gex, registry, heap, rd, kdf, fp, thr>>

\* Public values a hostile peer may send: the degenerate ones and the largest valid one.
ForgedValues == {0, 1, P_MODEL - 2, P_MODEL - 1, P_MODEL, P_MODEL + 1}
ForgedPackets(side) ==
    {Packet(CallbackStart(side), <<e>>) : e \in ForgedValues}
        \cup {Packet(CallbackStart(side), NULL)}

\* A packet that the peer modelled here did not send arrives.
DeliverForged(side) ==
    /\ net["client"].forged + net["server"].forged < MaxForged
    /\ net' = [net EXCEPT ![side].forged = @ + 1]
    /\ \E pkt \in ForgedPackets(side) : Dispatch(side, pkt)
    /\ UNCHANGED <<kex_type, with_gex, registry, heap, rd, kdf, fp, thr>>

Next ==
    \/ ClientStart
    \/ ServerStart
    \/ \E side \in Sides : Deliver(side)
    \/ \E side \in Sides : DeliverForged(side)

Spec == Init /\ [][Next]_vars

\* The registry alone: one thread calling ssh_dh_init and ssh_dh_finalize.
RegState == [registry |-> registry, heap |-> heap]

DhInit ==
    /\ Len(heap.trace) < MaxCalls
    /\ \E fail \in DhInitFailures \cup {"none"} :
           LET st == ssh_dh_init(RegState, fail) IN
               /\ registry' = st.registry
               /\ heap' = st.heap
    /\ UNCHANGED <<sess, net, kex_type, with_gex, rd, kdf, fp, thr>>

DhFinalize ==
    /\ Len(heap.trace) < MaxCalls
    /\ LET st == ssh_dh_finalize(RegState) IN
           /\ registry' = st.registry
           /\ heap' = st.heap
    /\ UNCHANGED <<sess, net, kex_type, with_gex, rd, kdf, fp, thr>>

InitRegistry ==
    /\ Init
    /\ kex_type = "SSH_KEX_DH_GROUP14_SHA256"
    /\ with_gex

NextRegistry == DhInit \/ DhFinalize

SpecRegistry == InitRegistry /\ [][NextRegistry]_vars

(***************************************************************************)
(* Properties.                                                             *)
(***************************************************************************)
client == sess["client"]
server == sess["server"]

\* The callback of each side, as it appears in the trace.
Handler(side) ==
    IF side = "client" THEN "ssh_packet_client_dh_reply" ELSE "ssh_packet_server_dh_init"
Entered(side) == Called(sess[side], Handler(side))
\* A call made by the callback of the side failed.
HandlerFailed(side) ==
    \E i, j \in DOMAIN sess[side].trace :
        /\ sess[side].trace[i].call = Handler(side)
        /\ i < j
        /\ ~sess[side].trace[j].ok
Types(packets) == [i \in DOMAIN packets |-> packets[i].type]

\* Both callbacks ran, every packet delivered was the peer's, in order, and no call failed.
PairedRun ==
    /\ Entered("client") /\ Entered("server")
    /\ net["client"].forged = 0 /\ net["server"].forged = 0
    /\ ~AnyFailed(client) /\ ~AnyFailed(server)

\* C1: in a run pairing one client with one server over a reliable in-order
\* transport in which no call fails, the client emits KEXDH_INIT then NEWKEYS,
\* the server KEXDH_REPLY then NEWKEYS, both end with dh_handshake_state
\* NEWKEYS_SENT and both hold the same shared secret.
C1_PairedHandshake ==
    PairedRun =>
        /\ Types(client.sent) = <<SSH2_MSG_KEXDH_INIT, SSH2_MSG_NEWKEYS>>
        /\ Types(server.sent) = <<SSH2_MSG_KEXDH_REPLY, SSH2_MSG_NEWKEYS>>
        /\ client.dh_handshake_state = DH_STATE_NEWKEYS_SENT
        /\ server.dh_handshake_state = DH_STATE_NEWKEYS_SENT
        /\ client.shared_secret # NULL
        /\ client.shared_secret = server.shared_secret

C1_Witness == PairedRun /\ client.shared_secret # NULL /\ server.shared_secret # NULL

\* The degenerate public values 0, 1, p-1, p, p+1.
Degenerate == {0, 1, P_MODEL - 1, P_MODEL, P_MODEL + 1}
GotDegenerate(side) ==
    /\ CalledOk(sess[side], "ssh_buffer_unpack")
    /\ sess[side].unpacked[1] \in Degenerate

\* C2: a peer public value in {0, 1, p-1, p, p+1}, arriving as f at the client or
\* as e at the server, is rejected by set_peer; the handler never calls
\* compute_shared_secret, stores no shared secret, emits no NEWKEYS (and no
\* reply on the server) and the session ends in the ERROR state.
C2_DegenerateRejected ==
    \A side \in Sides :
        GotDegenerate(side) =>
            /\ Failed(sess[side], "ssh_dh_keypair_set_keys")
            /\ ~Called(sess[side], "ssh_dh_compute_shared_secret")
            /\ sess[side].shared_secret = NULL
            /\ CountSent(sess[side], SSH2_MSG_NEWKEYS) = 0
            /\ CountSent(server, SSH2_MSG_KEXDH_REPLY) = 0 \/ side = "client"
            /\ CountSent(server, SSH2_MSG_KEX_DH_GEX_REPLY) = 0 \/ side = "client"
            /\ sess[side].session_state = SSH_SESSION_STATE_ERROR

C2_Witness ==
    /\ GotDegenerate("client")
    /\ client.unpacked = <<P_MODEL - 1>>
    /\ client.session_state = SSH_SESSION_STATE_ERROR

\* C3 (as claimed): whenever ssh_client_dh_init fails, the DH context is cleaned
\* up, an error is returned and the session state is ERROR.
C3_ClientStartFailureCleansUp ==
    (AnyFailed(client) /\ ~Entered("client")) =>
        /\ client.ret = SSH_ERROR
        /\ client.dh_ctx = NULL
        /\ client.session_state = SSH_SESSION_STATE_ERROR

\* C4: on every error path of the client's KEXDH_REPLY handler the DH context is
\* cleaned up, the session state becomes ERROR and dh_handshake_state does not
\* become NEWKEYS_SENT.
C4_ClientReplyErrorPaths ==
    HandlerFailed("client") =>
        /\ client.dh_ctx = NULL
        /\ Called(client, "ssh_dh_cleanup")
        /\ client.session_state = SSH_SESSION_STATE_ERROR
        /\ client.dh_handshake_state # DH_STATE_NEWKEYS_SENT

C4_Witness ==
    /\ Failed(client, "ssh_packet_send:" \o SSH2_MSG_NEWKEYS)
    /\ client.shared_secret # NULL
    /\ client.session_state = SSH_SESSION_STATE_ERROR

\* C5: on every failure inside the server's KEXDH_INIT processing the DH context
\* is cleaned up and the session state becomes ERROR.
C5_ServerInitErrorPaths ==
    HandlerFailed("server") =>
        /\ server.dh_ctx = NULL
        /\ Called(server, "ssh_dh_cleanup")
        /\ server.session_state = SSH_SESSION_STATE_ERROR

C5_Witness ==
    /\ Failed(server, "ssh_srv_pki_do_sign_sessionid")
    /\ server.shared_secret # NULL
    /\ server.dh_ctx = NULL

\* C6: the client KEXDH_REPLY callback and the server KEXDH_INIT callback return
\* SSH_PACKET_USED on every path, success and failure alike.
C6_PacketUsed ==
    \A side \in Sides : Entered(side) => sess[side].ret = SSH_PACKET_USED

C6_Witness ==
    /\ Entered("client") /\ HandlerFailed("client")
    /\ Entered("server") /\ ~HandlerFailed("server")

\* Packets of the callback's message number that reached the side.
Arrived(side) ==
    Cardinality({i \in 1..net[side].pos :
                    sess[Peer(side)].sent[i].type = CallbackStart(side)})
        + net[side].forged

\* C7: the DH callbacks are single-shot: once a handler was entered its callback
\* is no longer registered, a second KEXDH_REPLY (KEXDH_INIT) is not processed,
\* and at most one NEWKEYS is emitted per handshake.
C7_SingleShot ==
    \A side \in Sides :
        /\ Entered(side) => ~sess[side].callbacks
        /\ CountCalls(sess[side], Handler(side)) <= 1
        /\ CountSent(sess[side], SSH2_MSG_NEWKEYS) <= 1

C7_Witness == Entered("client") /\ Arrived("client") = 2

\* The kex types for which the server has a reply message number.
ReplyFor(kex, gex) ==
    IF kex \in FixedGroupKex THEN {SSH2_MSG_KEXDH_REPLY}
    ELSE IF kex \in GexKex /\ gex THEN {SSH2_MSG_KEX_DH_GEX_REPLY}
    ELSE {}

\* C8: the server's reply is KEXDH_REPLY exactly for the five fixed-group kex
\* types, KEX_DH_GEX_REPLY exactly for a GEX type with GEX enabled; for every
\* other kex type no reply and no NEWKEYS is emitted and the session goes to ERROR.
C8_ReplyType ==
    /\ {server.sent[i].type : i \in DOMAIN server.sent} \ {SSH2_MSG_NEWKEYS}
           \subseteq ReplyFor(kex_type, with_gex)
    /\ \A i \in DOMAIN server.trace :
           (server.trace[i].call = "ssh_srv_pki_do_sign_sessionid" /\ server.trace[i].ok) =>
               IF ReplyFor(kex_type, with_gex) = {}
               THEN /\ server.trace[i + 1] = [call |-> "Invalid kex type", ok |-> FALSE]
                    /\ server.sent = <<>>
                    /\ server.session_state = SSH_SESSION_STATE_ERROR
               ELSE /\ ~Called(server, "Invalid kex type")
                    /\ \A t \in {SSH2_MSG_KEXDH_REPLY, SSH2_MSG_KEX_DH_GEX_REPLY} :
                           Called(server, "ssh_buffer_pack:" \o t)
                               => t \in ReplyFor(kex_type, with_gex)
    /\ (Entered("server") /\ ReplyFor(kex_type, with_gex) = {}) =>
           /\ server.sent = <<>>
           /\ server.session_state = SSH_SESSION_STATE_ERROR

C8_Witness ==
    /\ kex_type \in GexKex
    /\ Len(server.sent) = 2
    /\ server.sent[1].type = SSH2_MSG_KEX_DH_GEX_REPLY

\* C9: when ssh_client_dh_init succeeds, exactly one KEXDH_INIT packet carrying
\* the freshly generated client public value has been emitted, the callback for
\* KEXDH_REPLY is registered and dh_handshake_state is INIT_SENT; the callback
\* is registered and the state set before the packet is handed to the transport.
C9_ClientStartSuccess ==
    /\ client.ret = SSH_OK =>
           /\ HasCtx(client)
           /\ Ctx(client).keypairs[DH_CLIENT_KEYPAIR].priv # NULL
           /\ client.sent =
                  <<Packet(SSH2_MSG_KEXDH_INIT,
                           <<ModExp(g_int, Ctx(client).keypairs[DH_CLIENT_KEYPAIR].priv[1],
                                    P_MODEL)>>)>>
           /\ client.callbacks
           /\ client.dh_handshake_state = DH_STATE_INIT_SENT
    /\ Before(client, "ssh_packet_set_callbacks", "ssh_packet_send:" \o SSH2_MSG_KEXDH_INIT)
    /\ Before(client, "dh_handshake_state=" \o DH_STATE_INIT_SENT,
              "ssh_packet_send:" \o SSH2_MSG_KEXDH_INIT)

C9_Witness == client.ret = SSH_OK /\ Len(client.sent) = 1

\* The last call made to the registry.
LastCall(h) == h.trace[Len(h.trace)]

\* C10: ssh_dh_init called while the registry is initialized returns success and
\* leaves the generator and the four group moduli unchanged, with no allocation,
\* for any number of repeated calls.
C10_InitIdempotent ==
    [][(/\ registry.dh_crypto_initialized
        /\ Len(heap'.trace) = Len(heap.trace) + 1
        /\ LastCall(heap').op = "ssh_dh_init")
       => (/\ LastCall(heap').rc = SSH_OK
           /\ registry' = registry
           /\ heap'.next = heap.next
           /\ heap'.live = heap.live)]_vars

C10_Witness ==
    /\ Len(heap.trace) >= 3
    /\ \A i \in 1..3 : heap.trace[i] = [op |-> "ssh_dh_init", rc |-> SSH_OK]
    /\ registry.dh_crypto_initialized
    /\ registry.ssh_dh_generator = <<[addr |-> 1, val |-> <<WordValue(g_int)>>]>>

\* The addresses of the bignums the registry points to.
RegistryAddrs(r) == {r[f][1].addr : f \in {g \in GroupFields : r[g] # NULL}}

\* The five constants a full initialization leaves in the registry.
GroupValue(f) ==
    CASE f = "ssh_dh_generator" -> WordValue(2)
      [] f = "ssh_dh_group1" -> BinValue("p_group1_value", 128)
      [] f = "ssh_dh_group14" -> BinValue("p_group14_value", 256)
      [] f = "ssh_dh_group16" -> BinValue("p_group16_value", 512)
      [] f = "ssh_dh_group18" -> BinValue("p_group18_value", 1024)

RegistryCall(op) ==
    /\ Len(heap'.trace) = Len(heap.trace) + 1
    /\ LastCall(heap').op = op

\* C11: ssh_dh_finalize releases the generator and the four group moduli and
\* re-arms initialization: the registry it leaves is the uninitialized one with no
\* bignum alive, so that the next successful ssh_dh_init builds all five constants
\* again in fresh bignums; ssh_dh_finalize on an uninitialized registry changes
\* nothing.
C11_FinalizeRearms ==
    [][/\ (RegistryCall("ssh_dh_finalize") /\ registry.dh_crypto_initialized)
            => (/\ registry' = NoRegistry
                /\ heap'.live = heap.live \ RegistryAddrs(registry)
                /\ heap'.live = {}
                /\ heap'.next = heap.next)
       /\ (RegistryCall("ssh_dh_finalize") /\ ~registry.dh_crypto_initialized)
            => (/\ registry' = registry
                /\ registry' = NoRegistry
                /\ heap'.live = heap.live
                /\ heap'.next = heap.next)
       /\ (/\ RegistryCall("ssh_dh_init")
           /\ ~registry.dh_crypto_initialized
           /\ LastCall(heap').rc = SSH_OK)
            => (/\ registry'.dh_crypto_initialized
                /\ \A f \in GroupFields :
                       /\ registry'[f] # NULL
                       /\ registry'[f][1].val = <<GroupValue(f)>>
                       /\ registry'[f][1].addr \notin heap.live
                       /\ registry'[f][1].addr >= heap.next
                /\ Cardinality(RegistryAddrs(registry')) = 5
                /\ heap'.live = RegistryAddrs(registry'))]_vars

C11_Witness ==
    /\ heap.trace = <<[op |-> "ssh_dh_finalize", rc |-> "void"],
                      [op |-> "ssh_dh_init", rc |-> SSH_OK],
                      [op |-> "ssh_dh_finalize", rc |-> "void"],
                      [op |-> "ssh_dh_init", rc |-> SSH_OK]>>
    /\ registry.dh_crypto_initialized
    /\ RegistryAddrs(registry) = 6..10

(***************************************************************************)
(* The readers of the registry: ssh_dh_is_known_group, ssh_fallback_group. *)
(***************************************************************************)
\* Calls of the two readers the model follows.
MaxReads == 2

\* bignum_num_bits(x) and bignum_cmp(a, b); the code only tests the latter against 0.
bignum_num_bits(x) == x[1].val[1].bits
bignum_cmp(a, b) == IF a[1].val = b[1].val THEN 0 ELSE 1

\* Variant: the thresholds are the sizes of the groups themselves.
known_group_select_SizeThresholds(reg, bits) ==
    IF bits < 2048 THEN reg.ssh_dh_group14
    ELSE IF bits < 4096 THEN reg.ssh_dh_group16
    ELSE reg.ssh_dh_group18

\* if (bits < 3072) m = ssh_dh_group14; else if (bits < 6144) ... else ...
known_group_select(reg, bits) ==
    IF bits < 3072 THEN reg.ssh_dh_group14
    ELSE IF bits < 6144 THEN reg.ssh_dh_group16
    ELSE reg.ssh_dh_group18

ssh_dh_is_known_group(reg, modulus, generator) ==
    LET bits == bignum_num_bits(modulus)
        m == known_group_select(reg, bits) IN
    IF bignum_cmp(m, modulus) # 0 THEN FALSE
    ELSE IF bignum_cmp(reg.ssh_dh_generator, generator) # 0 THEN FALSE
    ELSE TRUE

\* bignum_dup(orig, &dest): a new bignum with the value of orig, NULL when it fails.
bignum_dup(r, orig, dest, failed) ==
    IF failed \/ orig = NULL
    THEN [r EXCEPT ![dest] = NULL]
    ELSE [r EXCEPT ![dest] = <<[addr |-> r.heap.next, val |-> orig[1].val]>>,
                   !.heap.next = @ + 1,
                   !.heap.live = @ \cup {r.heap.next}]

\* Variant: the boundary sizes go to the smaller group.
fallback_group_select_Inclusive(reg, pmax) ==
    IF pmax <= 3072 THEN reg.ssh_dh_group14
    ELSE IF pmax <= 6144 THEN reg.ssh_dh_group16
    ELSE reg.ssh_dh_group18

\* if (pmax < 3072) ssh_dh_group14 else if (pmax < 6144) ssh_dh_group16 else ...
fallback_group_select(reg, pmax) ==
    IF pmax < 3072 THEN reg.ssh_dh_group14
    ELSE IF pmax < 6144 THEN reg.ssh_dh_group16
    ELSE reg.ssh_dh_group18

\* bignum_safe_free((*modulus));
fallback_group_free_modulus(r) ==
    [r EXCEPT !.heap.live = @ \ {r.modulus[1].addr}, !.modulus = NULL]

\* Variant: the global the copy was made from is freed instead of the copy.
ssh_fallback_group_FreesGlobal(st, pmax, fail) ==
    LET r0 == [registry |-> st.registry, heap |-> st.heap, modulus |-> NULL,
               generator |-> NULL, rc |-> NotReturned]
        r1 == bignum_dup(r0, fallback_group_select(r0.registry, pmax), "modulus",
                         fail = "modulus") IN
    IF r1.modulus = NULL THEN [r1 EXCEPT !.rc = SSH_ERROR] ELSE
    LET r2 == bignum_dup(r1, r1.registry.ssh_dh_generator, "generator",
                         fail = "generator") IN
    IF r2.generator = NULL
    THEN LET s == bignum_safe_free([registry |-> r2.registry, heap |-> r2.heap],
                                   "ssh_dh_group14") IN
         [r2 EXCEPT !.registry = s.registry, !.heap = s.heap, !.modulus = NULL,
                    !.rc = SSH_ERROR]
    ELSE [r2 EXCEPT !.rc = SSH_OK]

\* ssh_fallback_group(pmax, &modulus, &generator): the outputs and the return code.
ssh_fallback_group(st, pmax, fail) ==
    LET r0 == [registry |-> st.registry, heap |-> st.heap, modulus |-> NULL,
               generator |-> NULL, rc |-> NotReturned]
        r1 == bignum_dup(r0, fallback_group_select(r0.registry, pmax), "modulus",
                         fail = "modulus") IN
    IF r1.modulus = NULL THEN [r1 EXCEPT !.rc = SSH_ERROR] ELSE
    LET r2 == bignum_dup(r1, r1.registry.ssh_dh_generator, "generator",
                         fail = "generator") IN
    IF r2.generator = NULL
    THEN [fallback_group_free_modulus(r2) EXCEPT !.rc = SSH_ERROR]
    ELSE [r2 EXCEPT !.rc = SSH_OK]

\* A bignum of the caller, outside the allocator the model follows.
CallerBignum(v) == <<[addr |-> 0, val |-> <<v>>]>>

\* Moduli a peer may propose: the four group primes, primes with one bit flipped
\* (the lowest, or the highest, which shortens the number by a bit) and other
\* numbers of the sizes around the two thresholds.
ModulusValues ==
    {BinValue("p_group1_value", P_GROUP1_LEN), BinValue("p_group14_value", P_GROUP14_LEN),
     BinValue("p_group16_value", P_GROUP16_LEN), BinValue("p_group18_value", P_GROUP18_LEN)}
        \cup {[bits |-> 2048, from |-> "p_group14_value^bit0"],
              [bits |-> 2047, from |-> "p_group14_value^bit2047"],
              [bits |-> 4096, from |-> "p_group16_value^bit0"],
              [bits |-> 8192, from |-> "p_group18_value^bit0"]}
        \cup {[bits |-> b, from |-> "other"] : b \in {2048, 3071, 3072, 4096, 6143, 6144, 8192}}

GeneratorValues == {WordValue(w) : w \in {1, 2, 3, 5}}

\* Sizes a client may ask for (pmax is a uint32_t).
PmaxValues == {0, 1024, 2048, 3071, 3072, 4096, 6143, 6144, 8192, 2147483647}

NoSession == sess = [side \in Sides |-> NewSession]

IsKnownGroup ==
    /\ registry.dh_crypto_initialized
    /\ NoSession
    /\ rd.calls < MaxReads
    /\ \E p \in ModulusValues, g \in GeneratorValues :
           rd' = [op |-> "ssh_dh_is_known_group", calls |-> rd.calls + 1,
                  pmax |-> 0, fail |-> "none",
                  modulus |-> CallerBignum(p), generator |-> CallerBignum(g),
                  ret |-> ssh_dh_is_known_group(registry, CallerBignum(p), CallerBignum(g))]
    /\ UNCHANGED <<sess, net, kex_type, with_gex, registry, heap, kdf, fp, thr>>

FallbackGroup ==
    /\ registry.dh_crypto_initialized
    /\ NoSession
    /\ rd.calls < MaxReads
    /\ \E pmax \in PmaxValues, fail \in {"none", "modulus", "generator"} :
           LET r == ssh_fallback_group(RegState, pmax, fail) IN
               /\ registry' = r.registry
               /\ heap' = r.heap
               /\ rd' = [op |-> "ssh_fallback_group", calls |-> rd.calls + 1,
                         pmax |-> pmax, fail |-> fail,
                         modulus |-> r.modulus, generator |-> r.generator, ret |-> r.rc]
    /\ UNCHANGED <<sess, net, kex_type, with_gex, kdf, fp, thr>>

\* A key exchange run while the registry is initialized.  The handshake and the two
\* readers work on disjoint state, so they are run one after the other here.
Handshake ==
    /\ registry.dh_crypto_initialized
    /\ rd.calls = 0
    /\ Next

\* The state ssh_dh_init leaves when it succeeds on the zero-initialised globals.
InitReaders ==
    /\ sess = [side \in Sides |-> NewSession]
    /\ net = [side \in Sides |-> [pos |-> 0, forged |-> 0]]
    /\ kex_type = "SSH_KEX_DH_GROUP14_SHA256"
    /\ with_gex = TRUE
    /\ LET st == ssh_dh_init([registry |-> NoRegistry, heap |-> NoHeap], "none") IN
           /\ registry = st.registry
           /\ heap = st.heap
    /\ rd = NoRead
    /\ kdf = NotCalled
    /\ fp = NotCalled
    /\ thr = NoThreads

NextReaders == IsKnownGroup \/ FallbackGroup \/ Handshake

SpecReaders == InitReaders /\ [][NextReaders]_vars

\* The group the size selects: Group14 below 3072, Group16 below 6144, else Group18.
SelectedGroup(n) ==
    IF n < 3072 THEN GroupValue("ssh_dh_group14")
    ELSE IF n < 6144 THEN GroupValue("ssh_dh_group16")
    ELSE GroupValue("ssh_dh_group18")

\* C12: ssh_dh_is_known_group(p', g') is true exactly when g' is 2 and p' equals
\* the constant selected by the bit length of p'; so it is true for Group14 with
\* generator 2, false for Group14 with generator 3, false for Group14 with one bit
\* flipped, false for the Group1 prime.
C12_KnownGroup ==
    rd.op = "ssh_dh_is_known_group" =>
        LET p == rd.modulus[1].val[1]
            g == rd.generator[1].val[1] IN
        /\ rd.ret = (g = WordValue(2) /\ p = SelectedGroup(p.bits))
        /\ rd.ret = (/\ g = WordValue(2)
                     /\ p \in {GroupValue("ssh_dh_group14"), GroupValue("ssh_dh_group16"),
                               GroupValue("ssh_dh_group18")})
        /\ (p = GroupValue("ssh_dh_group14") /\ g = WordValue(2)) => rd.ret
        /\ (p = GroupValue("ssh_dh_group14") /\ g = WordValue(3)) => ~rd.ret
        /\ p.from \in {"p_group14_value^bit0", "p_group14_value^bit2047"} => ~rd.ret
        /\ p = GroupValue("ssh_dh_group1") => ~rd.ret

C12_Witness ==
    /\ rd.op = "ssh_dh_is_known_group"
    /\ rd.modulus[1].val[1] = GroupValue("ssh_dh_group16")
    /\ rd.ret

\* C13: on success ssh_fallback_group(pmax) hands out a copy of Group14 when
\* pmax < 3072, of Group16 when 3072 <= pmax < 6144, of Group18 otherwise, and a
\* copy of the generator 2; when either copy cannot be made it returns an error
\* with both outputs NULL.
C13_FallbackGroup ==
    rd.op = "ssh_fallback_group" =>
        /\ rd.ret = (IF rd.fail = "none" THEN SSH_OK ELSE SSH_ERROR)
        /\ rd.ret = SSH_OK =>
               /\ rd.modulus # NULL /\ rd.generator # NULL
               /\ rd.modulus[1].val = <<SelectedGroup(rd.pmax)>>
               /\ rd.generator[1].val = <<WordValue(2)>>
               /\ rd.modulus[1].addr # rd.generator[1].addr
               /\ {rd.modulus[1].addr, rd.generator[1].addr} \cap RegistryAddrs(registry) = {}
               /\ {rd.modulus[1].addr, rd.generator[1].addr} \subseteq heap.live
               /\ (rd.pmax = 2048 => rd.modulus[1].val = <<BinValue("p_group14_value", 256)>>)
               /\ (rd.pmax = 4096 => rd.modulus[1].val = <<BinValue("p_group16_value", 512)>>)
               /\ (rd.pmax = 8192 => rd.modulus[1].val = <<BinValue("p_group18_value", 1024)>>)
        /\ rd.ret # SSH_OK => (rd.modulus = NULL /\ rd.generator = NULL)

C13_Witness ==
    /\ rd.op = "ssh_fallback_group"
    /\ rd.pmax = 3072
    /\ rd.ret = SSH_OK
    /\ rd.modulus[1].val = <<GroupValue("ssh_dh_group16")>>

\* C14: while the registry is initialized, no operation of the DH core (the two
\* readers, the client and the server handshake handlers) changes the generator
\* or a group modulus, or frees one of them.
C14_RegistryReadOnly ==
    [][/\ registry' = registry
       /\ \A f \in GroupFields : registry'[f] # NULL /\ registry'[f][1].val = <<GroupValue(f)>>
       /\ RegistryAddrs(registry) \subseteq heap'.live]_vars

C14_Witness ==
    /\ rd.op = "ssh_fallback_group"
    /\ rd.fail = "generator"
    /\ rd.calls = 2
    /\ \A f \in GroupFields : registry[f] # NULL /\ registry[f][1].val = <<GroupValue(f)>>

(***************************************************************************)
(* bcrypt_pbkdf (src/external/bcrypt_pbkdf.c).  The hashes are             *)
(* uninterpreted: a digest is the term naming what was hashed, a buffer    *)
(* holds a term, zero, or what it held before it was first written.        *)
(***************************************************************************)
\* The largest number of rounds asked for.
MaxRounds == 2
\* The outer loop is followed up to this value of count.
MaxCount == 33

BCRYPT_BLOCKS == 8
BCRYPT_HASHSIZE == BCRYPT_BLOCKS * 4

Zero == [f |-> "zero"]
Uninitialized == [f |-> "uninitialized"]
NotAllocated == [f |-> "not allocated"]

\* SHA512Init, SHA512Update(x), SHA512Final.
SHA512(x) == [f |-> "SHA512", of |-> x]

\* out ^= tmpout and memcpy(out, tmpout): out is the XOR of a set of blocks.
XorOf(blocks) == [f |-> "xor", of |-> blocks]
Xor(out, tmpout) == XorOf((out.of \ {tmpout}) \cup ({tmpout} \ out.of))

\* Byte i of a block.
Byte(block, i) == [of |-> block, idx |-> i]

\* bcrypt_hash(state, sha2pass, sha2salt, out): the block written to out, the
\* Blowfish state it leaves, and its locals after the two explicit_bzero calls.
bcrypt_hash(sha2pass, sha2salt) ==
    [out |-> [f |-> "bcrypt_hash", pass |-> sha2pass, salt |-> sha2salt],
     state |-> [f |-> "blf_state", pass |-> sha2pass, salt |-> sha2salt],
     ciphertext |-> Zero,
     cdata |-> Zero]

\* Variant: the limit on the salt length is missing.
pbkdf_bad_params_NoSaltLimit(rounds, passlen, saltlen, keylen) ==
    \/ rounds < 1
    \/ passlen = 0 \/ saltlen = 0 \/ keylen = 0
    \/ keylen > BCRYPT_HASHSIZE * BCRYPT_HASHSIZE

\* if (rounds < 1) return -1;
\* if (passlen == 0 || saltlen == 0 || keylen == 0 ||
\*     keylen > sizeof(out) * sizeof(out) || saltlen > 1<<20) return -1;
pbkdf_bad_params(rounds, passlen, saltlen, keylen) ==
    \/ rounds < 1
    \/ passlen = 0 \/ saltlen = 0 \/ keylen = 0
    \/ keylen > BCRYPT_HASHSIZE * BCRYPT_HASHSIZE
    \/ saltlen > 1048576

\* The arguments of one invocation of bcrypt_hash.
HashCall(sha2pass, sha2salt) == [pass |-> sha2pass, salt |-> sha2salt]

RECURSIVE pbkdf_rounds(_, _)
RECURSIVE pbkdf_rounds_Overwrite(_, _)
\* Variant: each round replaces the accumulator instead of being XORed into it.
pbkdf_rounds_Overwrite(k, i) ==
    IF i >= k.rounds THEN k ELSE
    LET s == SHA512(k.tmpout)
        h == bcrypt_hash(k.sha2pass, s) IN
    pbkdf_rounds_Overwrite([k EXCEPT !.sha2salt = s, !.tmpout = h.out, !.state = h.state,
                                     !.out = XorOf({h.out}),
                                     !.hashes = Append(@, HashCall(k.sha2pass, s))], i + 1)

\* for (i = 1; i < rounds; i++): hash the previous block, XOR it into out.
pbkdf_rounds(k, i) ==
    IF i >= k.rounds THEN k ELSE
    LET s == SHA512(k.tmpout)
        h == bcrypt_hash(k.sha2pass, s) IN
    pbkdf_rounds([k EXCEPT !.sha2salt = s, !.tmpout = h.out, !.state = h.state,
                           !.out = Xor(@, h.out),
                           !.hashes = Append(@, HashCall(k.sha2pass, s))], i + 1)

\* for (i = 0; i < amt; i++) { dest = i * stride + (count - 1);
\*     if (dest >= origkeylen) break; key[dest] = out[i]; }
\* The result carries i at the exit and the indices written, in order.
RECURSIVE pbkdf_place(_, _, _)
RECURSIVE pbkdf_place_Linear(_, _, _)
\* Variant: the blocks are laid out one after the other, as in PBKDF2.
pbkdf_place_Linear(k, i, dests) ==
    IF i >= k.amt THEN [k |-> k, i |-> i, dests |-> dests] ELSE
    LET dest == (k.count - 1) * BCRYPT_HASHSIZE + i IN
    IF dest >= k.origkeylen THEN [k |-> k, i |-> i, dests |-> dests] ELSE
    pbkdf_place_Linear([k EXCEPT !.key[dest] = Byte(k.out, i)], i + 1, Append(dests, dest))

RECURSIVE pbkdf_place_NoBreak(_, _, _)
\* Variant: the test of dest against origkeylen is missing.
pbkdf_place_NoBreak(k, i, dests) ==
    IF i >= k.amt THEN [k |-> k, i |-> i, dests |-> dests] ELSE
    LET dest == i * k.stride + (k.count - 1) IN
    pbkdf_place_NoBreak([k EXCEPT !.key[dest] = Byte(k.out, i)], i + 1, Append(dests, dest))

pbkdf_place(k, i, dests) ==
    IF i >= k.amt THEN [k |-> k, i |-> i, dests |-> dests] ELSE
    LET dest == i * k.stride + (k.count - 1) IN
    IF dest >= k.origkeylen THEN [k |-> k, i |-> i, dests |-> dests] ELSE
    pbkdf_place([k EXCEPT !.key[dest] = Byte(k.out, i)], i + 1, Append(dests, dest))

MIN(a, b) == IF a < b THEN a ELSE b

\* countsalt[saltlen + 0 .. 3] = count, most significant byte first.
be32(count) ==
    <<(count \div 16777216) % 256, (count \div 65536) % 256, (count \div 256) % 256,
      count % 256>>

RECURSIVE pbkdf_loop(_)
RECURSIVE pbkdf_loop_DecrementAmt(_)
\* Variant: keylen -= amt, the bytes asked for instead of the bytes placed.
pbkdf_loop_DecrementAmt(k) ==
    IF ~(k.keylen > 0) THEN k ELSE
    IF k.count > MaxCount THEN [k EXCEPT !.capped = TRUE] ELSE
    LET cs == [f |-> "countsalt", salt |-> k.salt, count |-> be32(k.count)]
        s == SHA512(cs)
        h == bcrypt_hash(k.sha2pass, s)
        k1 == [k EXCEPT !.countsalt = cs, !.sha2salt = s, !.tmpout = h.out,
                        !.state = h.state, !.out = XorOf({h.out}),
                        !.hashes = <<HashCall(k.sha2pass, s)>>]
        k2 == pbkdf_rounds(k1, 1)
        k3 == [k2 EXCEPT !.amt = MIN(@, k2.keylen)]
        r == pbkdf_place(k3, 0, <<>>)
    IN  pbkdf_loop_DecrementAmt([r.k EXCEPT !.keylen = @ - k3.amt,
                               !.count = @ + 1,
                               !.iters = Append(@, [count |-> k.count, amt |-> k3.amt,
                                                    out |-> k3.out, i |-> r.i,
                                                    dests |-> r.dests,
                                                    hashes |-> k3.hashes,
                                                    keylen |-> k3.keylen - k3.amt])])

\* for (count = 1; keylen > 0; count++) { ... keylen -= i; }
pbkdf_loop(k) ==
    IF ~(k.keylen > 0) THEN k ELSE
    IF k.count > MaxCount THEN [k EXCEPT !.capped = TRUE] ELSE
    LET cs == [f |-> "countsalt", salt |-> k.salt, count |-> be32(k.count)]
        s == SHA512(cs)
        h == bcrypt_hash(k.sha2pass, s)
        k1 == [k EXCEPT !.countsalt = cs, !.sha2salt = s, !.tmpout = h.out,
                        !.state = h.state, !.out = XorOf({h.out}),
                        !.hashes = <<HashCall(k.sha2pass, s)>>]
        k2 == pbkdf_rounds(k1, 1)
        k3 == [k2 EXCEPT !.amt = MIN(@, k2.keylen)]
        r == pbkdf_place(k3, 0, <<>>)
    IN  pbkdf_loop([r.k EXCEPT !.keylen = @ - r.i,
                               !.count = @ + 1,
                               !.iters = Append(@, [count |-> k.count, amt |-> k3.amt,
                                                    out |-> k3.out, i |-> r.i,
                                                    dests |-> r.dests,
                                                    hashes |-> k3.hashes,
                                                    keylen |-> k3.keylen - r.i])])

\* What the caller's key buffer holds before the call.
CallerByte(d) == [of |-> [f |-> "caller"], idx |-> d]

\* The arguments and the locals of bcrypt_pbkdf on entry.
pbkdf_enter(in) ==
    [op |-> "bcrypt_pbkdf",
     pass |-> [f |-> "pass", len |-> in.passlen],
     salt |-> [f |-> "salt", len |-> in.saltlen],
     rounds |-> in.rounds, fail |-> in.fail,
     key |-> [d \in 0..(in.keylen - 1) |-> CallerByte(d)],
     keylen |-> in.keylen, origkeylen |-> in.keylen,
     sha2pass |-> Uninitialized, sha2salt |-> Uninitialized,
     out |-> Uninitialized, tmpout |-> Uninitialized,
     countsalt |-> NotAllocated, state |-> NotAllocated, freed |-> {},
     stride |-> 0, amt |-> 0, count |-> 0,
     hashes |-> <<>>, iters |-> <<>>, capped |-> FALSE, ret |-> NotReturned]

\* Variant: the stride is rounded up also when keylen is a multiple of the block size.
pbkdf_setup_StrideOff(k) ==
    LET stride == (k.keylen \div BCRYPT_HASHSIZE) + 1 IN
    [k EXCEPT !.countsalt = [f |-> "countsalt", salt |-> k.salt, count |-> <<0, 0, 0, 0>>],
              !.stride = stride,
              !.amt = (k.keylen + stride - 1) \div stride]

\* countsalt = calloc(1, saltlen + 4); stride, amt; memcpy(countsalt, salt, saltlen).
pbkdf_setup(k) ==
    LET stride == (k.keylen + BCRYPT_HASHSIZE - 1) \div BCRYPT_HASHSIZE IN
    [k EXCEPT !.countsalt = [f |-> "countsalt", salt |-> k.salt, count |-> <<0, 0, 0, 0>>],
              !.stride = stride,
              !.amt = (k.keylen + stride - 1) \div stride]

\* explicit_bzero(out); explicit_bzero(state); free(state); free(countsalt); return 0;
pbkdf_zap(k) ==
    [k EXCEPT !.out = Zero, !.state = Zero, !.freed = {"state", "countsalt"}, !.ret = 0]

\* Variant: the number of rounds is only looked at after the key was derived.
bcrypt_pbkdf_LateRoundsCheck(in) ==
    LET k0 == pbkdf_enter(in) IN
    IF pbkdf_bad_params(1, in.passlen, in.saltlen, in.keylen)
    THEN [k0 EXCEPT !.ret = -1] ELSE
    IF in.fail = "calloc" THEN [k0 EXCEPT !.ret = -1] ELSE
    LET k1 == pbkdf_setup(k0) IN
    IF in.fail = "malloc" THEN [k1 EXCEPT !.freed = {"countsalt"}, !.ret = -1] ELSE
    LET k2 == [k1 EXCEPT !.state = Uninitialized, !.sha2pass = SHA512(k1.pass),
                         !.count = 1]
        k3 == pbkdf_zap(pbkdf_loop(k2)) IN
    IF in.rounds < 1 THEN [k3 EXCEPT !.ret = -1] ELSE k3

bcrypt_pbkdf(in) ==
    LET k0 == pbkdf_enter(in) IN
    IF pbkdf_bad_params(in.rounds, in.passlen, in.saltlen, in.keylen)
    THEN [k0 EXCEPT !.ret = -1] ELSE
    IF in.fail = "calloc" THEN [k0 EXCEPT !.ret = -1] ELSE
    LET k1 == pbkdf_setup(k0) IN
    IF in.fail = "malloc" THEN [k1 EXCEPT !.freed = {"countsalt"}, !.ret = -1] ELSE
    LET k2 == [k1 EXCEPT !.state = Uninitialized, !.sha2pass = SHA512(k1.pass),
                         !.count = 1] IN
    pbkdf_zap(pbkdf_loop(k2))

\* The calls followed: every key length that is accepted, with lengths that are
\* accepted anyway, and the lengths around each limit with each allocation failing.
KdfInputs ==
    {[passlen |-> 1, saltlen |-> 1, keylen |-> n, rounds |-> r, fail |-> "none"] :
        n \in 1..(BCRYPT_HASHSIZE * BCRYPT_HASHSIZE), r \in 1..MaxRounds}
    \cup
    {[passlen |-> p, saltlen |-> s, keylen |-> n, rounds |-> r, fail |-> f] :
        p \in {0, 1, 2}, s \in {0, 1, 1048576, 1048577},
        n \in {0, 1, BCRYPT_HASHSIZE, BCRYPT_HASHSIZE + 1,
               BCRYPT_HASHSIZE * BCRYPT_HASHSIZE, BCRYPT_HASHSIZE * BCRYPT_HASHSIZE + 1},
        r \in 0..MaxRounds, f \in {"none", "calloc", "malloc"}}

BcryptPbkdf ==
    /\ kdf.op = "none"
    /\ \E in \in KdfInputs : kdf' = bcrypt_pbkdf(in)
    /\ UNCHANGED <<sess, net, kex_type, with_gex, registry, heap, rd, fp, thr>>

SpecKdf == InitRegistry /\ [][BcryptPbkdf]_vars

\* The parameters bcrypt_pbkdf is specified to reject.
Rejected(k) ==
    \/ k.rounds < 1
    \/ k.pass.len = 0
    \/ k.salt.len = 0 \/ k.salt.len > 2^20
    \/ k.origkeylen = 0 \/ k.origkeylen > 1024

\* C15: when no allocation fails, bcrypt_pbkdf returns an error exactly when
\* rounds < 1, or passlen = 0, or saltlen = 0, or saltlen > 2^20, or keylen = 0,
\* or keylen > 1024; every other call succeeds.
C15_ParameterValidation ==
    (kdf.op = "bcrypt_pbkdf" /\ kdf.fail = "none") =>
        /\ kdf.ret \in {0, -1}
        /\ (kdf.ret = -1) = Rejected(kdf)

C15_Witness ==
    /\ kdf.op = "bcrypt_pbkdf"
    /\ kdf.fail = "none"
    /\ kdf.salt.len = 2^20
    /\ kdf.origkeylen = 1024
    /\ kdf.ret = 0

\* C16: whenever bcrypt_pbkdf returns an error, for a rejected parameter or a
\* failed allocation, no byte of the key buffer has been written.
C16_NoWriteOnError ==
    (kdf.op = "bcrypt_pbkdf" /\ kdf.ret # 0) =>
        /\ \A d \in DOMAIN kdf.key : kdf.key[d] = CallerByte(d)
        /\ kdf.iters = <<>>

C16_Witness ==
    /\ kdf.op = "bcrypt_pbkdf"
    /\ kdf.ret = -1
    /\ kdf.fail = "malloc"
    /\ ~Rejected(kdf)
    /\ kdf.origkeylen = 1024

\* C17: for every accepted keylen, stride is the ceiling of keylen / 32, and on
\* success key[d], for 0 <= d < keylen, is byte (d div stride) of the accumulator
\* of the outer iteration with count = (d mod stride) + 1.
C17_KeyLayout ==
    (kdf.op = "bcrypt_pbkdf" /\ kdf.ret = 0) =>
        /\ kdf.stride * 32 >= kdf.origkeylen
        /\ (kdf.stride - 1) * 32 < kdf.origkeylen
        /\ DOMAIN kdf.key = 0..(kdf.origkeylen - 1)
        /\ \A d \in 0..(kdf.origkeylen - 1) :
               LET count == (d % kdf.stride) + 1 IN
               /\ count <= Len(kdf.iters)
               /\ kdf.iters[count].count = count
               /\ kdf.key[d] = Byte(kdf.iters[count].out, d \div kdf.stride)

C17_Witness ==
    /\ kdf.op = "bcrypt_pbkdf"
    /\ kdf.ret = 0
    /\ kdf.origkeylen = 1000
    /\ kdf.rounds = 2
    /\ kdf.stride = 32
    /\ \E n \in 1..Len(kdf.iters) : kdf.iters[n].i < kdf.iters[n].amt
    /\ kdf.key[999] = Byte(kdf.iters[8].out, 31)

\* The buffers of bcrypt_pbkdf that hold material derived from the password.
TransientBuffers == {"sha2pass", "sha2salt", "tmpout", "out", "state", "countsalt"}

\* C18: when bcrypt_pbkdf returns, on success and on failure, each of sha2pass,
\* sha2salt, tmpout, out, the Blowfish state and the counter-salt buffer has been
\* zeroed (or was never written).
C18_TransientsZeroed ==
    kdf.op = "bcrypt_pbkdf" =>
        \A b \in TransientBuffers : kdf[b] \in {Zero, Uninitialized, NotAllocated}

(***************************************************************************)
(* ssh_get_fingerprint_hash.  A C string is the sequence of its            *)
(* characters; a char * is NULL or <<string>>.                             *)
(***************************************************************************)
\* The longest digest followed, in bytes.
MaxHashLen == 3

\* Bytes of a digest: they reach the first and the last characters of the alphabet.
HashBytes == {0, 251, 255}

Base64Alphabet ==
    <<"A", "B", "C", "D", "E", "F", "G", "H", "I", "J", "K", "L", "M", "N", "O", "P",
      "Q", "R", "S", "T", "U", "V", "W", "X", "Y", "Z", "a", "b", "c", "d", "e", "f",
      "g", "h", "i", "j", "k", "l", "m", "n", "o", "p", "q", "r", "s", "t", "u", "v",
      "w", "x", "y", "z", "0", "1", "2", "3", "4", "5", "6", "7", "8", "9", "+", "/">>

B64(n) == Base64Alphabet[n + 1]

\* bin_to_base64(hash, len): three bytes give four characters; the last one or
\* two bytes give two or three characters and the padding.
RECURSIVE bin_to_base64(_)
bin_to_base64(h) ==
    IF Len(h) = 0 THEN <<>>
    ELSE IF Len(h) = 1
    THEN <<B64(h[1] \div 4), B64((h[1] % 4) * 16), "=", "=">>
    ELSE IF Len(h) = 2
    THEN <<B64(h[1] \div 4), B64(((h[1] % 4) * 16) + (h[2] \div 16)), B64((h[2] % 16) * 4), "=">>
    ELSE <<B64(h[1] \div 4), B64(((h[1] % 4) * 16) + (h[2] \div 16)),
           B64(((h[2] % 16) * 4) + (h[3] \div 64)), B64(h[3] % 64)>>
             \o bin_to_base64(SubSeq(h, 4, Len(h)))

HexDigits ==
    <<"0", "1", "2", "3", "4", "5", "6", "7", "8", "9", "a", "b", "c", "d", "e", "f">>

\* ssh_get_hexa(hash, len): two lowercase digits a byte, colons between the bytes.
RECURSIVE ssh_get_hexa(_)
ssh_get_hexa(h) ==
    IF Len(h) = 0 THEN <<>>
    ELSE <<HexDigits[(h[1] \div 16) + 1], HexDigits[(h[1] % 16) + 1]>>
             \o (IF Len(h) = 1 THEN <<>> ELSE <<":">> \o ssh_get_hexa(Tail(h)))

RECURSIVE b64_unpadded_len(_, _)
\* Variant: one padding character at most is dropped.
b64_unpadded_len_One(s, k) ==
    IF k # 0 /\ s[k] = "=" THEN k - 1 ELSE k

\* for (k = strlen(b64_padded); k != 0 && b64_padded[k-1] == '='; k--);
b64_unpadded_len(s, k) ==
    IF k # 0 /\ s[k] = "=" THEN b64_unpadded_len(s, k - 1) ELSE k

\* ssh_get_b64_unpadded(hash, len)
ssh_get_b64_unpadded(hash, fail) ==
    LET b64_padded == IF fail = "bin_to_base64" THEN NULL ELSE <<bin_to_base64(hash)>> IN
    IF b64_padded = NULL THEN NULL ELSE
    LET k == b64_unpadded_len(b64_padded[1], Len(b64_padded[1])) IN
    IF fail = "strndup" THEN NULL ELSE <<SubSeq(b64_padded[1], 1, k)>>

HashTypes ==
    {"SSH_PUBLICKEY_HASH_SHA1", "SSH_PUBLICKEY_HASH_MD5", "SSH_PUBLICKEY_HASH_SHA256"}

\* snprintf(str, str_len, "%s:%s", prefix, fingerprint): what is written to str
\* (at most str_len - 1 characters) and the length it asked for.
snprintf(str_len, prefix, fingerprint, failed) ==
    LET full == prefix \o <<":">> \o fingerprint IN
    [str |-> SubSeq(full, 1, MIN(Len(full), str_len - 1)),
     rc |-> IF failed THEN -1 ELSE Len(full)]

ssh_get_fingerprint_hash(type, hash, fail) ==
    LET fingerprint ==
            CASE type \in {"SSH_PUBLICKEY_HASH_SHA1", "SSH_PUBLICKEY_HASH_SHA256"} ->
                     ssh_get_b64_unpadded(hash, fail)
              [] type = "SSH_PUBLICKEY_HASH_MD5" ->
                     IF fail = "ssh_get_hexa" THEN NULL ELSE <<ssh_get_hexa(hash)>>
              [] OTHER -> NULL
    IN
    IF fingerprint = NULL THEN NULL ELSE
    LET prefix ==
            CASE type = "SSH_PUBLICKEY_HASH_MD5" -> <<"M", "D", "5">>
              [] type = "SSH_PUBLICKEY_HASH_SHA1" -> <<"S", "H", "A", "1">>
              [] type = "SSH_PUBLICKEY_HASH_SHA256" -> <<"S", "H", "A", "2", "5", "6">>
              [] OTHER -> <<"U", "N", "K", "N", "O", "W", "N">>
        str_len0 == Len(prefix)
    IN
    IF str_len0 + 1 + Len(fingerprint[1]) + 1 < str_len0 THEN NULL ELSE
    LET str_len == str_len0 + 1 + Len(fingerprint[1]) + 1 IN
    IF fail = "malloc" THEN NULL ELSE
    LET p == snprintf(str_len, prefix, fingerprint[1], fail = "snprintf") IN
    IF p.rc < 0 \/ p.rc < str_len - 1 THEN NULL ELSE <<p.str>>

RECURSIVE SeqsUpTo(_, _)
SeqsUpTo(S, n) ==
    IF n = 0 THEN {<<>>}
    ELSE LET shorter == SeqsUpTo(S, n - 1) IN
         shorter \cup {Append(q, x) : q \in shorter, x \in S}

FingerprintFailures == {"bin_to_base64", "strndup", "ssh_get_hexa", "malloc", "snprintf"}

GetFingerprintHash ==
    /\ fp.op = "none"
    /\ \E type \in HashTypes \cup {"other"},
          hash \in SeqsUpTo(HashBytes, MaxHashLen) \ {<<>>},
          fail \in FingerprintFailures \cup {"none"} :
           fp' = [op |-> "ssh_get_fingerprint_hash", type |-> type, hash |-> hash,
                  fail |-> fail, ret |-> ssh_get_fingerprint_hash(type, hash, fail)]
    /\ UNCHANGED <<sess, net, kex_type, with_gex, registry, heap, rd, kdf, thr>>

SpecFingerprint == InitRegistry /\ [][GetFingerprintHash]_vars

\* The calls made for a type tag, any of which may fail.
FailsFor(type) ==
    IF type = "SSH_PUBLICKEY_HASH_MD5" THEN {"ssh_get_hexa", "malloc", "snprintf"}
    ELSE {"bin_to_base64", "strndup", "malloc", "snprintf"}

Padding == {<<>>, <<"=">>, <<"=", "=">>}

\* C19: ssh_get_fingerprint_hash returns PREFIX ":" BODY, where PREFIX is MD5,
\* SHA1 or SHA256 by the type tag and BODY is the hex rendering of the digest for
\* MD5 and, for SHA1 and SHA256, its base64 rendering with every trailing '='
\* removed and nothing else removed; for any other type tag, or when a conversion
\* or an allocation fails, it returns NULL.
C19_Fingerprint ==
    fp.op = "ssh_get_fingerprint_hash" =>
        IF fp.type \in HashTypes /\ fp.fail \notin FailsFor(fp.type)
        THEN /\ fp.ret # NULL
             /\ LET str == fp.ret[1]
                    n == CASE fp.type = "SSH_PUBLICKEY_HASH_MD5" -> 3
                           [] fp.type = "SSH_PUBLICKEY_HASH_SHA1" -> 4
                           [] fp.type = "SSH_PUBLICKEY_HASH_SHA256" -> 6
                    body == SubSeq(str, n + 2, Len(str)) IN
                /\ Len(str) >= n + 1
                /\ SubSeq(str, 1, n + 1) =
                       (CASE fp.type = "SSH_PUBLICKEY_HASH_MD5" -> <<"M", "D", "5", ":">>
                          [] fp.type = "SSH_PUBLICKEY_HASH_SHA1" -> <<"S", "H", "A", "1", ":">>
                          [] fp.type = "SSH_PUBLICKEY_HASH_SHA256" ->
                                 <<"S", "H", "A", "2", "5", "6", ":">>)
                /\ IF fp.type = "SSH_PUBLICKEY_HASH_MD5"
                   THEN body = ssh_get_hexa(fp.hash)
                   ELSE /\ \E pad \in Padding : body \o pad = bin_to_base64(fp.hash)
                        /\ \A j \in 1..Len(body) : body[j] # "="
                        /\ Len(body) * 3 >= Len(fp.hash) * 4
                        /\ (Len(body) - 1) * 3 < Len(fp.hash) * 4
                /\ (fp.type = "SSH_PUBLICKEY_HASH_SHA256" /\ fp.hash = <<255>>)
                       => str = <<"S", "H", "A", "2", "5", "6", ":", "/", "w">>
                /\ (fp.type = "SSH_PUBLICKEY_HASH_MD5" /\ fp.hash = <<0, 251>>)
                       => str = <<"M", "D", "5", ":", "0", "0", ":", "f", "b">>
        ELSE fp.ret = NULL

C19_Witness ==
    /\ fp.op = "ssh_get_fingerprint_hash"
    /\ fp.type = "SSH_PUBLICKEY_HASH_SHA1"
    /\ fp.hash = <<251>>
    /\ fp.ret = << <<"S", "H", "A", "1", ":", "+", "w">> >>

\* Some call of a that succeeded comes before position j of the trace.
OkBefore(s, a, j) == \E i \in 1..(j - 1) : s.trace[i].call = a /\ s.trace[i].ok

\* C20: in the client's KEXDH_REPLY handler ssh_dh_compute_shared_secret is
\* called only after ssh_dh_keypair_set_keys accepted the server's f and the host
\* key blob was imported successfully, NEWKEYS is sent only after the shared
\* secret was computed successfully, and dh_handshake_state becomes NEWKEYS_SENT
\* only after the send of NEWKEYS succeeded.
C20_ClientReplyOrder ==
    /\ \A j \in DOMAIN client.trace :
           LET call == client.trace[j].call IN
           /\ call = "ssh_dh_compute_shared_secret" =>
                  /\ \E i \in 1..(j - 1) :
                         /\ client.trace[i].call = "ssh_dh_keypair_set_keys"
                         /\ client.trace[i].ok
                         /\ \E n \in (i + 1)..(j - 1) :
                                /\ client.trace[n].call = "ssh_dh_import_next_pubkey_blob"
                                /\ client.trace[n].ok
                  /\ client.unpacked # NULL
                  /\ InRange(client.unpacked[1], P_MODEL)
           /\ call = "ssh_packet_send:" \o SSH2_MSG_NEWKEYS =>
                  OkBefore(client, "ssh_dh_compute_shared_secret", j)
           /\ call = "dh_handshake_state=" \o DH_STATE_NEWKEYS_SENT =>
                  OkBefore(client, "ssh_packet_send:" \o SSH2_MSG_NEWKEYS, j)
    /\ client.dh_handshake_state = DH_STATE_NEWKEYS_SENT =>
           /\ CalledOk(client, "ssh_packet_send:" \o SSH2_MSG_NEWKEYS)
           /\ CountSent(client, SSH2_MSG_NEWKEYS) = 1
           /\ client.shared_secret # NULL

C20_Witness ==
    /\ client.dh_handshake_state = DH_STATE_NEWKEYS_SENT
    /\ CalledOk(client, "ssh_dh_compute_shared_secret")
    /\ Before(client, "ssh_dh_compute_shared_secret", "ssh_packet_send:" \o SSH2_MSG_NEWKEYS)
    /\ client.ret = SSH_PACKET_USED

\* The calls of the sequence succeeded, in this order, between from and j.
RECURSIVE OkChain(_, _, _, _)
OkChain(s, calls, from, j) ==
    IF calls = <<>> THEN TRUE
    ELSE \E i \in from..(j - 1) :
             /\ s.trace[i].call = Head(calls)
             /\ s.trace[i].ok
             /\ OkChain(s, Tail(calls), i + 1, j)

ReplySends ==
    {"ssh_packet_send:" \o SSH2_MSG_KEXDH_REPLY, "ssh_packet_send:" \o SSH2_MSG_KEX_DH_GEX_REPLY}
ReplyTypes == {SSH2_MSG_KEXDH_REPLY, SSH2_MSG_KEX_DH_GEX_REPLY}

\* C21: the server emits the reply packet only after, in this order, the client's
\* e was accepted by ssh_dh_keypair_set_keys, the server key pair was generated,
\* the shared secret was computed, the session id was made and it was signed;
\* NEWKEYS is emitted only after the reply was sent successfully, never before it.
C21_ServerReplyOrder ==
    /\ \A j \in DOMAIN server.trace :
           LET call == server.trace[j].call IN
           /\ call \in ReplySends =>
                  /\ OkChain(server,
                             <<"ssh_dh_keypair_set_keys", "ssh_dh_keypair_gen_keys",
                               "ssh_dh_compute_shared_secret", "ssh_make_sessionid",
                               "ssh_srv_pki_do_sign_sessionid">>, 1, j)
                  /\ server.unpacked # NULL
                  /\ InRange(server.unpacked[1], P_MODEL)
           /\ call = "ssh_packet_send:" \o SSH2_MSG_NEWKEYS =>
                  \E i \in 1..(j - 1) :
                      server.trace[i].call \in ReplySends /\ server.trace[i].ok
    /\ \A n \in DOMAIN server.sent :
           server.sent[n].type = SSH2_MSG_NEWKEYS =>
               \E m \in 1..(n - 1) : server.sent[m].type \in ReplyTypes

C21_Witness ==
    /\ Len(server.sent) = 2
    /\ server.sent[1].type = SSH2_MSG_KEX_DH_GEX_REPLY
    /\ server.sent[2].type = SSH2_MSG_NEWKEYS
    /\ server.ret = SSH_PACKET_USED
    /\ CalledOk(server, "ssh_srv_pki_do_sign_sessionid")

KdfSucceeded == kdf.op = "bcrypt_pbkdf" /\ kdf.ret = 0

\* The number of key bytes written in the first n outer iterations.
RECURSIVE Written(_, _)
Written(its, n) == IF n = 0 THEN 0 ELSE Written(its, n - 1) + Len(its[n].dests)

\* The outer iterations that wrote key[d].
WritersOf(its, d) ==
    {<<n, q>> \in UNION {{<<m, r>> : r \in DOMAIN its[m].dests} : m \in DOMAIN its} :
        its[n].dests[q] = d}

\* C22: for every keylen in 1..1024, in a successful bcrypt_pbkdf every write to
\* key has an index in [0, keylen), every index in [0, keylen) is written exactly
\* once over the whole run, and every read of the accumulator out uses an index
\* below 32.
C22_IndexSafety ==
    KdfSucceeded =>
        /\ kdf.origkeylen \in 1..1024
        /\ \A n \in DOMAIN kdf.iters :
               /\ \A q \in DOMAIN kdf.iters[n].dests :
                      /\ kdf.iters[n].dests[q] \in 0..(kdf.origkeylen - 1)
                      /\ q - 1 < 32
               /\ kdf.iters[n].amt <= 32
        /\ Written(kdf.iters, Len(kdf.iters)) = kdf.origkeylen
        /\ UNION {{kdf.iters[n].dests[q] : q \in DOMAIN kdf.iters[n].dests} :
                     n \in DOMAIN kdf.iters} = 0..(kdf.origkeylen - 1)
        /\ \A d \in {0, kdf.origkeylen \div 2, kdf.origkeylen - 1} :
               Cardinality(WritersOf(kdf.iters, d)) = 1

C22_Witness ==
    /\ KdfSucceeded
    /\ kdf.origkeylen = 1024
    /\ Len(kdf.iters) = 32
    /\ kdf.iters[32].dests[32] = 1023

\* C23: for every keylen in 1..1024 the outer loop of bcrypt_pbkdf ends after
\* exactly stride = ceiling(keylen / 32) iterations, count running from 1 to
\* stride, with the remaining length at 0; no iteration places zero bytes.
C23_LoopTerminates ==
    (kdf.op = "bcrypt_pbkdf" /\ kdf.iters # <<>>) =>
        /\ ~kdf.capped
        /\ kdf.ret = 0
        /\ Len(kdf.iters) * 32 >= kdf.origkeylen
        /\ (Len(kdf.iters) - 1) * 32 < kdf.origkeylen
        /\ Len(kdf.iters) = kdf.stride
        /\ \A n \in DOMAIN kdf.iters :
               /\ kdf.iters[n].count = n
               /\ kdf.iters[n].i >= 1
               /\ Len(kdf.iters[n].dests) >= 1
        /\ kdf.keylen = 0
        /\ kdf.count = kdf.stride + 1

C23_Witness ==
    /\ KdfSucceeded
    /\ kdf.origkeylen = 33
    /\ Len(kdf.iters) = 2
    /\ kdf.keylen = 0

\* C24: at the end of every outer iteration of bcrypt_pbkdf the remaining length
\* is the original keylen minus the number of key bytes written so far: the
\* decrement of an iteration is the number of bytes it placed, also when the
\* early break fires, when amt was clamped to the remaining length, and when
\* keylen is not a multiple of stride.
C24_RemainingLength ==
    (kdf.op = "bcrypt_pbkdf" /\ kdf.iters # <<>>) =>
        \A n \in DOMAIN kdf.iters :
            LET before == IF n = 1 THEN kdf.origkeylen ELSE kdf.iters[n - 1].keylen IN
            /\ kdf.iters[n].keylen = kdf.origkeylen - Written(kdf.iters, n)
            /\ before - kdf.iters[n].keylen = Len(kdf.iters[n].dests)
            /\ kdf.iters[n].keylen >= 0

\* keylen = 1000: the break fires from count = 9 on, and amt is clamped in the
\* last iteration.
C24_Witness ==
    /\ KdfSucceeded
    /\ kdf.origkeylen = 1000
    /\ kdf.origkeylen % kdf.stride # 0
    /\ kdf.iters[9].amt = 32 /\ Len(kdf.iters[9].dests) = 31
    /\ kdf.iters[32].amt = 31
    /\ kdf.iters[32].keylen = 0

\* The block an invocation of bcrypt_hash writes.
OutputOf(call) == [f |-> "bcrypt_hash", pass |-> call.pass, salt |-> call.salt]

\* C25: in the outer iteration count, bcrypt_hash is invoked exactly rounds times:
\* first with the digest SHA-512(salt || big-endian-u32(count)), then each time
\* with SHA-512 of the output of the invocation before, always with the same
\* sha2pass; the accumulator placed into key is the XOR of all rounds outputs,
\* which for rounds = 1 is the first output alone.
C25_RoundsChain ==
    KdfSucceeded =>
        \A n \in DOMAIN kdf.iters :
            LET it == kdf.iters[n] IN
            /\ Len(it.hashes) = kdf.rounds
            /\ \A r \in DOMAIN it.hashes : it.hashes[r].pass = SHA512(kdf.pass)
            /\ it.hashes[1].salt =
                   SHA512([f |-> "countsalt", salt |-> kdf.salt,
                           count |-> <<0, 0, 0, it.count>>])
            /\ \A r \in 2..Len(it.hashes) :
                   it.hashes[r].salt = SHA512(OutputOf(it.hashes[r - 1]))
            /\ it.out = XorOf({OutputOf(it.hashes[r]) : r \in DOMAIN it.hashes})
            /\ Cardinality(it.out.of) = kdf.rounds
            /\ kdf.rounds = 1 => it.out = XorOf({OutputOf(it.hashes[1])})
            /\ \A q \in DOMAIN it.dests : kdf.key[it.dests[q]] = Byte(it.out, q - 1)

C25_Witness ==
    /\ KdfSucceeded
    /\ kdf.rounds = 2
    /\ kdf.origkeylen = 64
    /\ Len(kdf.iters[2].hashes) = 2
    /\ kdf.iters[2].hashes[1].salt.of.count = <<0, 0, 0, 2>>

\* The flag set implies the generator and the four moduli are populated; the flag
\* clear implies nothing is allocated.
RegistryConsistent(r, h) ==
    IF r.dh_crypto_initialized
    THEN /\ \A f \in GroupFields : r[f] # NULL /\ r[f][1].val = <<GroupValue(f)>>
         /\ h.live = RegistryAddrs(r)
         /\ Cardinality(h.live) = 5
    ELSE /\ r = NoRegistry
         /\ h.live = {}

\* C26: when ssh_dh_init fails part-way (a bignum allocation or set fails) it
\* returns an error and leaves the registry uninitialized with every constant it
\* had allocated released; between calls the flag set implies that the generator
\* and the four moduli are populated, after any sequence of ssh_dh_init and
\* ssh_dh_finalize calls, and a later ssh_dh_init starts from scratch.
C26_InitFailureReleases ==
    [][/\ RegistryConsistent(registry', heap')
       /\ (RegistryCall("ssh_dh_init") /\ LastCall(heap').rc # SSH_OK)
            => (/\ LastCall(heap').rc = SSH_ERROR
                /\ ~registry.dh_crypto_initialized
                /\ registry' = NoRegistry
                /\ heap'.live = {})
       /\ (RegistryCall("ssh_dh_init") /\ ~registry.dh_crypto_initialized
             /\ LastCall(heap').rc = SSH_OK)
            => (/\ registry'.dh_crypto_initialized
                /\ RegistryAddrs(registry') = heap.next..(heap.next + 4))]_vars

\* The first call fails at the last modulus, after four allocations; the second
\* one builds the five constants anew.
C26_Witness ==
    /\ heap.trace = <<[op |-> "ssh_dh_init", rc |-> SSH_ERROR],
                      [op |-> "ssh_dh_init", rc |-> SSH_OK]>>
    /\ registry.dh_crypto_initialized
    /\ RegistryAddrs(registry) = 5..9

\* C27: on the client and on the server, dh_handshake_state is NEWKEYS_SENT only
\* if the NEWKEYS packet was sent successfully; in particular no session has the
\* session state ERROR together with dh_handshake_state NEWKEYS_SENT.
C27_NewkeysSentAfterSend ==
    \A side \in Sides :
        sess[side].dh_handshake_state = DH_STATE_NEWKEYS_SENT =>
            /\ CalledOk(sess[side], "ssh_packet_send:" \o SSH2_MSG_NEWKEYS)
            /\ sess[side].session_state # SSH_SESSION_STATE_ERROR

\* C28: whenever the KEXDH_REPLY callback of the client or the KEXDH_INIT callback
\* of the server is registered on a session, the session holds a DH context, also
\* after the creation of the context failed in ssh_client_dh_init or in
\* ssh_server_dh_init.
C28_CallbackImpliesContext ==
    \A side \in Sides : sess[side].callbacks => HasCtx(sess[side])

(***************************************************************************)
(* ssh_dh_init called by several threads at once.  The function takes no   *)
(* lock; a step is one statement that reads or writes the globals, and the *)
(* test that follows a write is part of the step of the write.             *)
(***************************************************************************)
Populated(r) == \A f \in GroupFields : r[f] # NULL /\ r[f][1].val # NULL

ThreadGoto(t, label) == thr' = [thr EXCEPT ![t].pc = label]

\* return rc; the thread notes whether the five constants were in place when it returned.
ThreadReturn(t, rc, r) ==
    thr' = [thr EXCEPT ![t] = [pc |-> "returned", rc |-> rc, populated |-> Populated(r)]]

ThreadShared(st) ==
    /\ registry' = st.registry
    /\ heap' = st.heap

ThreadRest == UNCHANGED <<sess, net, kex_type, with_gex, rd, kdf, fp>>

\* The group constants in the order ssh_dh_init reads them, and their sources.
GroupAfter(f) ==
    CASE f = "ssh_dh_group1" -> "ssh_dh_group14"
      [] f = "ssh_dh_group14" -> "ssh_dh_group16"
      [] f = "ssh_dh_group16" -> "ssh_dh_group18"
      [] f = "ssh_dh_group18" -> "return"

GroupBytes(f) ==
    CASE f = "ssh_dh_group1" -> <<"p_group1_value", P_GROUP1_LEN>>
      [] f = "ssh_dh_group14" -> <<"p_group14_value", P_GROUP14_LEN>>
      [] f = "ssh_dh_group16" -> <<"p_group16_value", P_GROUP16_LEN>>
      [] f = "ssh_dh_group18" -> <<"p_group18_value", P_GROUP18_LEN>>

\* if (dh_crypto_initialized) return SSH_OK;
ThreadCheckFlag(t) ==
    /\ thr[t].pc = "check_flag"
    /\ IF dh_init_is_initialized(RegState)
       THEN ThreadReturn(t, SSH_OK, registry)
       ELSE ThreadGoto(t, "set_flag")
    /\ UNCHANGED <<registry, heap>>
    /\ ThreadRest

\* dh_crypto_initialized = 1;
ThreadSetFlag(t) ==
    /\ thr[t].pc = "set_flag"
    /\ registry' = [registry EXCEPT !.dh_crypto_initialized = TRUE]
    /\ ThreadGoto(t, "bignum_new")
    /\ UNCHANGED heap
    /\ ThreadRest

\* ssh_dh_generator = bignum_new(); if (ssh_dh_generator == NULL) goto error;
ThreadNewGenerator(t) ==
    /\ thr[t].pc = "bignum_new"
    /\ \E failed \in BOOLEAN :
           LET st == bignum_new(RegState, "ssh_dh_generator", failed) IN
               /\ ThreadShared(st)
               /\ ThreadGoto(t, IF failed THEN "error" ELSE "bignum_set_word")
    /\ ThreadRest

\* rc = bignum_set_word(ssh_dh_generator, g_int); if (rc != 1) goto error;
\* When another thread has freed the generator meanwhile the call is made on NULL:
\* it fails or the thread stops there.
ThreadSetWord(t) ==
    /\ thr[t].pc = "bignum_set_word"
    /\ IF registry.ssh_dh_generator = NULL
       THEN /\ \E label \in {"error", "crashed"} : ThreadGoto(t, label)
            /\ UNCHANGED <<registry, heap>>
       ELSE \E failed \in BOOLEAN :
                IF failed
                THEN ThreadGoto(t, "error") /\ UNCHANGED <<registry, heap>>
                ELSE /\ ThreadShared(bignum_set_word(RegState, "ssh_dh_generator", g_int))
                     /\ ThreadGoto(t, "ssh_dh_group1")
    /\ ThreadRest

\* bignum_bin2bn(p_groupN_value, P_GROUPN_LEN, &ssh_dh_groupN);
\* if (ssh_dh_groupN == NULL) goto error;  and, after group18, return 0;
ThreadBin2bn(t) ==
    /\ thr[t].pc \in GroupFields \ {"ssh_dh_generator"}
    /\ \E failed \in BOOLEAN :
           LET f == thr[t].pc
               st == bignum_bin2bn(RegState, GroupBytes(f)[1], GroupBytes(f)[2], f, failed)
           IN  /\ ThreadShared(st)
               /\ IF failed THEN ThreadGoto(t, "error")
                  ELSE IF GroupAfter(f) = "return" THEN ThreadReturn(t, SSH_OK, st.registry)
                  ELSE ThreadGoto(t, GroupAfter(f))
    /\ ThreadRest

\* error: ssh_dh_finalize(); return SSH_ERROR;
ThreadError(t) ==
    /\ thr[t].pc = "error"
    /\ LET st == ssh_dh_finalize_body(RegState) IN
           /\ ThreadShared(st)
           /\ ThreadReturn(t, SSH_ERROR, st.registry)
    /\ ThreadRest

NextThreads ==
    \E t \in Threads :
        \/ ThreadCheckFlag(t)
        \/ ThreadSetFlag(t)
        \/ ThreadNewGenerator(t)
        \/ ThreadSetWord(t)
        \/ ThreadBin2bn(t)
        \/ ThreadError(t)

SpecThreads == InitRegistry /\ [][NextThreads]_vars

\* C29: every call of ssh_dh_init that returns SSH_OK returns with the generator and
\* the four group moduli populated, whatever the interleaving of the threads that
\* call it on the uninitialized registry.
C29_SuccessMeansPopulated ==
    \A t \in Threads :
        thr[t].pc = "returned" /\ thr[t].rc = SSH_OK => thr[t].populated

====
